---- MODULE Spec2Model ----
(***************************************************************************)
(* A model of the poe-market-helper scrapers:                              *)
(*   backend/scrapers/poe_ninja.py    PoeNinjaScraper                      *)
(*   backend/scrapers/poedb_scraper.py PoeDBScraper                        *)
(* Python values are tagged records, strings are sequences of one-letter   *)
(* strings, dicts are functions from key names to values, and an exception *)
(* that escapes a call is the value Exc(kind).                             *)
(***************************************************************************)
EXTENDS Integers, Sequences, FiniteSets, Bags, TLC

VARIABLES
    op,         \* the operation the invocation runs: "none", "builds", "market", "mods"
    pc,         \* the await the invocation is suspended at
    pw,         \* the async_playwright() scope: "none", "started", "stopped"
    browser,    \* the browser session: "none", "open", "closed"
    calls,      \* how often each browser API call was issued
    builds,     \* scrape_builds: the local list `builds`
    matched,    \* scrape_builds: how many elements query_selector_all matched
    idx,        \* scrape_builds: elements already visited by the for loop
    listening,  \* scrape_builds: handle_response is registered on the page
    arrived,    \* scrape_builds: responses delivered to handle_response so far
    pending,    \* scrape_builds: handle_response calls suspended in response.json()
    api_data,   \* scrape_builds: the local list `api_data`
    produced,   \* scrape_builds: records each strategy ended with (-1: not completed)
    swallowed,  \* the exceptions caught and dropped inside the invocation
    content,    \* scrape_market_data: what page.content() returned
    data,       \* scrape_market_data: the local `data`
    status,     \* scrape_market_data: the response status (-1: none yet)
    all_mods,   \* scrape_all_mods: the local dict `all_mods`
    retval,     \* scrape_market_data: the value of the return expression
    failedAt,   \* the await or step that raised out of the function body
    raising,    \* an exception is propagating to the caller
    outcome,    \* "running", "returned", "raised"
    result,     \* what the caller received
    pin,        \* the value handed to the pure function under test
    pout,       \* what the pure function gave back
    db,         \* ModDatabase: the committed rows of the tables mods and builds
    session,    \* ModDatabase: the rows as the open session's transaction sees them
    total_stored, \* store_mods, store_builds: the local counter
    db0,        \* the committed rows when the store call began
    inv         \* the locals of each of the concurrent scraper invocations

vars == <<op, pc, pw, browser, calls, builds, matched, idx, listening, arrived,
          pending, api_data, produced, swallowed, content, data,
          status, all_mods, retval, failedAt, raising, outcome, result, pin, pout,
          db, session, total_stored, db0, inv>>

(***************************************************************************)
(* Bounds of the model.                                                    *)
(***************************************************************************)
MaxStrLen == 3      \* longest string handed to _parse_int
MaxItems == 2       \* longest array in a payload
MaxElems == 2       \* most elements query_selector_all matches
MaxResponses == 2   \* most responses delivered while the listener is attached

(***************************************************************************)
(* Python values.                                                          *)
(***************************************************************************)
None == [t |-> "none"]
PyBool(b) == [t |-> "bool", v |-> b]
PyInt(n) == [t |-> "int", v |-> n]
\* A float: kind "fin" (sign, integer part, fraction digits), "inf" or "nan".
PyFloat(k, neg, ip, fr) == [t |-> "float", k |-> k, neg |-> neg, ip |-> ip, fr |-> fr]
PyStr(s) == [t |-> "str", v |-> s]
PyList(s) == [t |-> "list", v |-> s]
PyDict(f) == [t |-> "dict", v |-> f]
Exc(kind) == [t |-> "exc", v |-> kind]
EmptyDict == PyDict([k \in {} |-> None])

IsExc(x) == x.t = "exc"

Digits == {"0", "1", "2", "3", "4", "5", "6", "7", "8", "9"}

DigitVal(c) ==
    CASE c = "0" -> 0 [] c = "1" -> 1 [] c = "2" -> 2 [] c = "3" -> 3
      [] c = "4" -> 4 [] c = "5" -> 5 [] c = "6" -> 6 [] c = "7" -> 7
      [] c = "8" -> 8 [] c = "9" -> 9

\* bool(x): Python truthiness, as `or` and `not` use it.
Truthy(x) ==
    CASE x.t = "none" -> FALSE
      [] x.t = "bool" -> x.v
      [] x.t = "int" -> x.v # 0
      [] x.t = "float" -> ~(x.k = "fin" /\ x.ip = 0 /\ \A i \in 1..Len(x.fr) : x.fr[i] = "0")
      [] x.t = "str" -> Len(x.v) > 0
      [] x.t = "list" -> Len(x.v) > 0
      [] x.t = "dict" -> DOMAIN x.v # {}
      [] OTHER -> TRUE

\* a or b
Or(a, b) == IF Truthy(a) THEN a ELSE b

\* d.get(key) and d.get(key, default) on a dict d
Get(d, key) == IF key \in DOMAIN d.v THEN d.v[key] ELSE None
GetOr(d, key, default) == IF key \in DOMAIN d.v THEN d.v[key] ELSE default

(***************************************************************************)
(* PoeNinjaScraper._parse_int                                              *)
(***************************************************************************)
\* s.replace(c, rep) for a one-letter c
RECURSIVE Replace(_, _, _)
Replace(s, c, rep) ==
    IF s = <<>> THEN <<>>
    ELSE (IF Head(s) = c THEN rep ELSE <<Head(s)>>) \o Replace(Tail(s), c, rep)

RECURSIVE DigitsToNat(_)
DigitsToNat(s) ==
    IF s = <<>> THEN 0
    ELSE 10 * DigitsToNat(SubSeq(s, 1, Len(s) - 1)) + DigitVal(s[Len(s)])

AllDigits(s) == \A i \in 1..Len(s) : s[i] \in Digits

\* str.lower() on one letter
LowerChar(c) ==
    CASE c = "A" -> "a" [] c = "B" -> "b" [] c = "C" -> "c" [] c = "D" -> "d" [] c = "E" -> "e"
      [] c = "F" -> "f" [] c = "G" -> "g" [] c = "H" -> "h" [] c = "I" -> "i" [] c = "J" -> "j"
      [] c = "K" -> "k" [] c = "L" -> "l" [] c = "M" -> "m" [] c = "N" -> "n" [] c = "O" -> "o"
      [] c = "P" -> "p" [] c = "Q" -> "q" [] c = "R" -> "r" [] c = "S" -> "s" [] c = "T" -> "t"
      [] c = "U" -> "u" [] c = "V" -> "v" [] c = "W" -> "w" [] c = "X" -> "x" [] c = "Y" -> "y"
      [] c = "Z" -> "z"
      [] OTHER -> c

Lower(s) == [i \in 1..Len(s) |-> LowerChar(s[i])]

\* the place of the first "." of body, or Len(body) + 1
FirstDot(body) ==
    LET dots == {i \in 1..Len(body) : body[i] = "."}
    IN  IF dots = {} THEN Len(body) + 1 ELSE CHOOSE i \in dots : \A j \in dots : i <= j

\* digits, at most one point, and a digit on one side of it
ParseDecimal(neg, ipart, fpart) ==
    IF AllDigits(ipart) /\ AllDigits(fpart) /\ Len(ipart) + Len(fpart) >= 1
    THEN PyFloat("fin", neg, DigitsToNat(ipart), fpart)
    ELSE Exc("ValueError")

ParseUnsigned(neg, body, dot) ==
    IF Lower(body) \in {<<"i", "n", "f">>, <<"i", "n", "f", "i", "n", "i", "t", "y">>}
    THEN PyFloat("inf", neg, 0, <<>>)
    ELSE IF Lower(body) = <<"n", "a", "n">>
    THEN PyFloat("nan", neg, 0, <<>>)
    ELSE ParseDecimal(neg, SubSeq(body, 1, dot - 1), SubSeq(body, dot + 1, Len(body)))

\* float(s) for a str s: an optional sign, then inf, infinity or nan in any
\* case, or a decimal.  (Exponents, underscores and surrounding blanks are
\* outside the alphabet of the model.)
ParseFloatStr(s) ==
    IF Len(s) > 0 /\ s[1] \in {"-", "+"}
    THEN ParseUnsigned(s[1] = "-", Tail(s), FirstDot(Tail(s)))
    ELSE ParseUnsigned(FALSE, s, FirstDot(s))

\* float(value)
FloatOf(value) ==
    CASE value.t = "float" -> value
      [] value.t = "int" -> PyFloat("fin", value.v < 0, IF value.v < 0 THEN -value.v ELSE value.v, <<>>)
      [] value.t = "bool" -> PyFloat("fin", FALSE, IF value.v THEN 1 ELSE 0, <<>>)
      [] value.t = "str" -> ParseFloatStr(value.v)
      [] OTHER -> Exc("TypeError")

\* int(f) for a float f: truncation toward zero
IntOfFloat(f) ==
    CASE f.k = "inf" -> Exc("OverflowError")
      [] f.k = "nan" -> Exc("ValueError")
      [] OTHER -> PyInt(IF f.neg THEN -f.ip ELSE f.ip)

\* a substitution that drops the suffix where the code writes 000 for it
StripSeparatorsDropsSuffix(s) ==
    Replace(Replace(Replace(s, ",", <<>>), "k", <<>>), "K", <<>>)

\* line 203: value.replace(',', '').replace('k', '000').replace('K', '000')
StripSeparators(s) ==
    Replace(Replace(Replace(s, ",", <<>>), "k", <<"0", "0", "0">>), "K", <<"0", "0", "0">>)

\* an except clause that names ValueError alone: any other exception leaves
\* _parse_int
ParseIntExceptValueError(e) == IF e.v = "ValueError" THEN None ELSE e

\* lines 205-206: except: return None
ParseIntExcept(e) == None

\* line 204: int(float(value)), or the exception it raises
IntOf(f) == IF IsExc(f) THEN f ELSE IntOfFloat(f)

\* lines 200-206: the try statement around the conversion r
ParseIntTry(r) == IF IsExc(r) THEN ParseIntExcept(r) ELSE r

\* _parse_int(value)
ParseInt(value) ==
    IF value = None THEN None
    ELSE IF value.t = "str" THEN ParseIntTry(IntOf(ParseFloatStr(StripSeparators(value.v))))
    ELSE ParseIntTry(IntOf(FloatOf(value)))

(***************************************************************************)
(* PoeNinjaScraper._normalize_build                                        *)
(***************************************************************************)
Unknown == PyStr(<<"U", "n", "k", "n", "o", "w", "n">>)

\* datetime.utcnow().isoformat(): the clock is not modelled
Timestamp == PyStr(<<"t">>)

\* raw_build.get(...) raises AttributeError when raw_build is no dict
NormalizeBuild(raw_build) ==
    IF raw_build.t # "dict" THEN Exc("AttributeError")
    ELSE PyDict([
        name |-> Or(Or(Get(raw_build, "name"), Get(raw_build, "character")), Unknown),
        class |-> Or(Or(Get(raw_build, "class"), Get(raw_build, "className")), Unknown),
        level |-> ParseInt(Get(raw_build, "level")),
        mainSkill |-> Or(Or(Or(Get(raw_build, "skill"), Get(raw_build, "mainSkill")),
                            Get(raw_build, "main_skill")), Unknown),
        dps |-> ParseInt(Or(Get(raw_build, "dps"), Get(raw_build, "totalDps"))),
        life |-> ParseInt(Or(Get(raw_build, "life"), Get(raw_build, "maxLife"))),
        energyShield |-> ParseInt(Or(Or(Get(raw_build, "energy_shield"),
                                        Get(raw_build, "energyShield")), Get(raw_build, "es"))),
        items |-> GetOr(raw_build, "items", PyList(<<>>)),
        url |-> Or(Get(raw_build, "url"), Get(raw_build, "poeUrl")),
        timestamp |-> Timestamp])

\* a list built item by item: the first exception among out escapes
FirstExcOrList(out) ==
    LET bad == {i \in 1..Len(out) : IsExc(out[i])}
    IN  IF bad = {} THEN PyList(out)
        ELSE out[CHOOSE i \in bad : \A j \in bad : i <= j]

\* [self._normalize_build(b) for b in seq]
NormalizeAll(seq) == FirstExcOrList([i \in 1..Len(seq) |-> NormalizeBuild(seq[i])])

(***************************************************************************)
(* PoeNinjaScraper._parse_nextjs_builds and the synchronous parts of       *)
(* scrape_builds                                                           *)
(***************************************************************************)
\* lines 173-177: the first of the keys that holds a list
NextjsKey(d) ==
    LET keys == <<"builds", "characters", "data", "items">>
        hits == {i \in 1..4 : keys[i] \in DOMAIN d.v /\ d.v[keys[i]].t = "list"}
    IN  IF hits = {} THEN "" ELSE keys[CHOOSE i \in hits : \A j \in hits : i <= j]

\* lines 168-177: the items _parse_nextjs_builds normalizes
NextjsItems(d) ==
    CASE d.t = "list" -> d.v
      [] d.t = "dict" -> IF NextjsKey(d) = "" THEN <<>> ELSE d.v[NextjsKey(d)].v
      [] OTHER -> <<>>

\* _parse_nextjs_builds(data): a PyList of records, or the exception that escapes
ParseNextjsBuilds(d) == NormalizeAll(NextjsItems(d))

\* key in x, for a dict or a list x (the model hands it no str)
Contains(key, x) ==
    CASE x.t = "dict" -> key \in DOMAIN x.v
      [] x.t = "list" -> \E i \in 1..Len(x.v) : x.v[i] = PyStr(key)
      [] OTHER -> FALSE

\* the keys of page_props tried in the order data, snapshot, builds
PagePropsKeyDataFirst(page_props) ==
    IF Contains("data", page_props) THEN "data"
    ELSE IF Contains("snapshot", page_props) THEN "snapshot"
    ELSE IF Contains("builds", page_props) THEN "builds"
    ELSE ""

\* lines 82-87: the first of builds, snapshot, data that page_props holds
PagePropsKey(page_props) ==
    IF Contains("builds", page_props) THEN "builds"
    ELSE IF Contains("snapshot", page_props) THEN "snapshot"
    ELSE IF Contains("data", page_props) THEN "data"
    ELSE ""

\* lines 79-87 for the value props of next_data
Strategy1Props(props) ==
    IF props.t # "dict" THEN Exc("AttributeError")
    ELSE IF GetOr(props, "pageProps", EmptyDict).t \notin {"dict", "list"} THEN Exc("TypeError")
    ELSE IF PagePropsKey(GetOr(props, "pageProps", EmptyDict)) = "" THEN PyList(<<>>)
    ELSE IF GetOr(props, "pageProps", EmptyDict).t # "dict" THEN Exc("TypeError")
    ELSE ParseNextjsBuilds(
            GetOr(props, "pageProps", EmptyDict).v[PagePropsKey(GetOr(props, "pageProps", EmptyDict))])

\* lines 77-87: the records strategy 1 adds to the empty `builds`, or the
\* exception that escapes
Strategy1(nd) ==
    IF ~Truthy(nd) THEN PyList(<<>>)
    ELSE IF nd.t \notin {"dict", "list"} THEN Exc("TypeError")
    ELSE IF ~Contains("props", nd) THEN PyList(<<>>)
    ELSE IF nd.t # "dict" THEN Exc("AttributeError")
    ELSE Strategy1Props(GetOr(nd, "props", EmptyDict))

\* line 119: build_data and (build_data.get("name") or build_data.get("class"))
KeepElement(build_data) ==
    /\ Truthy(build_data)
    /\ Truthy(Or(Get(build_data, "name"), Get(build_data, "class")))

\* iter(x) of a list comprehension over x, which need not be a list: the
\* items, or the exception
Iterate(x) ==
    CASE x.t = "list" -> x
      [] x.t = "str" -> PyList([i \in 1..Len(x.v) |-> PyStr(<<x.v[i]>>)])
      [] x.t = "dict" -> PyList([i \in 1..Cardinality(DOMAIN x.v) |-> PyStr(<<"k">>)])
      [] OTHER -> Exc("TypeError")

\* lines 147-153: what one captured payload is iterated over
CapturedItems(d) ==
    CASE d.t = "list" -> d
      [] d.t = "dict" -> IF "builds" \in DOMAIN d.v THEN Iterate(d.v["builds"])
                         ELSE IF "snapshot" \in DOMAIN d.v THEN Iterate(d.v["snapshot"])
                         ELSE PyList(<<>>)
      [] OTHER -> PyList(<<>>)

NormalizeItems(items) == IF IsExc(items) THEN items ELSE NormalizeAll(items.v)

\* lines 147-153: what one captured payload adds to `builds`
FlattenOne(d) == NormalizeItems(CapturedItems(d))

\* builds.extend(first) and then the rest of the loop
ExtendWith(first, rest) ==
    IF IsExc(first) THEN first
    ELSE IF IsExc(rest) THEN rest
    ELSE PyList(first.v \o rest.v)

\* lines 146-153: the loop over api_data; the first exception escapes
RECURSIVE Flatten(_)
Flatten(captured) ==
    IF captured = <<>> THEN PyList(<<>>)
    ELSE ExtendWith(FlattenOne(Head(captured)), Flatten(Tail(captured)))

(***************************************************************************)
(* PoeDBScraper.parse_mod_table and its helpers.  A document is the        *)
(* sequence of its <table class="table"> elements, a table the sequence of *)
(* its rows, a row the texts of its <th> and of its <td> cells.            *)
(***************************************************************************)
\* str.strip(), for the blank
RECURSIVE LStrip(_)
LStrip(s) == IF s # <<>> /\ Head(s) = " " THEN LStrip(Tail(s)) ELSE s

RECURSIVE RStrip(_)
RStrip(s) ==
    IF s # <<>> /\ s[Len(s)] = " " THEN RStrip(SubSeq(s, 1, Len(s) - 1)) ELSE s

Strip(s) == RStrip(LStrip(s))

\* key in s, for two strings
HasSubstring(s, key) ==
    \E i \in 1..(Len(s) - Len(key) + 1) : SubSeq(s, i, i + Len(key) - 1) = key

\* the end of the run of digits that starts at i (i - 1 when s[i] is no digit)
RECURSIVE DigitRunEnd(_, _)
DigitRunEnd(s, i) ==
    IF i <= Len(s) /\ s[i] \in Digits THEN DigitRunEnd(s, i + 1) ELSE i - 1

\* the place of the first digit of s, or 0
FirstDigit(s) ==
    LET at == {i \in 1..Len(s) : s[i] \in Digits}
    IN  IF at = {} THEN 0 ELSE CHOOSE i \in at : \A j \in at : i <= j

\* _parse_ilvl(ilvl_text), lines 154-163, for the first digit at place i
IlvlAt(s, i) == IF i = 0 THEN 1 ELSE DigitsToNat(SubSeq(s, i, DigitRunEnd(s, i)))

ParseIlvl(ilvl_text) == IlvlAt(ilvl_text, FirstDigit(ilvl_text))

\* the pattern \((\d+)-(\d+)\) matched at place i, whose first run of digits
\* ends at a and whose second ends at b: the place of the ")" or 0
RangeEndAt(s, i, a, b) ==
    IF /\ s[i] = "("
       /\ a >= i + 1
       /\ a + 1 <= Len(s) /\ s[a + 1] = "-"
       /\ b >= a + 2
       /\ b + 1 <= Len(s) /\ s[b + 1] = ")"
    THEN b + 1 ELSE 0

RangeEnd(s, i) ==
    RangeEndAt(s, i, DigitRunEnd(s, i + 1), DigitRunEnd(s, DigitRunEnd(s, i + 1) + 2))

\* the pair re.findall gives for the match at i
RangeOf(s, i) ==
    [min |-> DigitsToNat(SubSeq(s, i + 1, DigitRunEnd(s, i + 1))),
     max |-> DigitsToNat(SubSeq(s, DigitRunEnd(s, i + 1) + 2,
                                DigitRunEnd(s, DigitRunEnd(s, i + 1) + 2)))]

\* _extract_stat_ranges(mod_name), lines 165-185: the matches from place i on,
\* left to right and not overlapping
RECURSIVE StatRangesFrom(_, _)
StatRangesFrom(s, i) ==
    IF i > Len(s) THEN <<>>
    ELSE IF RangeEnd(s, i) = 0 THEN StatRangesFrom(s, i + 1)
    ELSE <<RangeOf(s, i)>> \o StatRangesFrom(s, RangeEnd(s, i) + 1)

ExtractStatRanges(mod_name) == StatRangesFrom(mod_name, 1)

\* lines 201-226: tag_mappings
TagMappings ==
    <<[tag |-> <<"r", "i", "n", "g">>, classes |-> {"Ring"}],
      [tag |-> <<"j", "e", "w", "e", "l", "l", "e", "r", "y">>, classes |-> {"Ring", "Amulet"}],
      [tag |-> <<"a", "m", "u", "l", "e", "t">>, classes |-> {"Amulet"}],
      [tag |-> <<"b", "e", "l", "t">>, classes |-> {"Belt"}],
      [tag |-> <<"b", "o", "d", "y">>, classes |-> {"Body Armour"}],
      [tag |-> <<"a", "r", "m", "o", "u", "r">>, classes |-> {"Body Armour", "Helmet", "Gloves", "Boots"}],
      [tag |-> <<"h", "e", "l", "m", "e", "t">>, classes |-> {"Helmet"}],
      [tag |-> <<"h", "e", "l", "m">>, classes |-> {"Helmet"}],
      [tag |-> <<"g", "l", "o", "v", "e", "s">>, classes |-> {"Gloves"}],
      [tag |-> <<"b", "o", "o", "t", "s">>, classes |-> {"Boots"}],
      [tag |-> <<"s", "h", "i", "e", "l", "d">>, classes |-> {"Shield"}],
      [tag |-> <<"w", "e", "a", "p", "o", "n">>, classes |-> {"Sword", "Axe", "Mace", "Bow", "Wand", "Dagger", "Claw", "Staff", "Sceptre"}],
      [tag |-> <<"s", "w", "o", "r", "d">>, classes |-> {"Sword"}],
      [tag |-> <<"a", "x", "e">>, classes |-> {"Axe"}],
      [tag |-> <<"m", "a", "c", "e">>, classes |-> {"Mace"}],
      [tag |-> <<"b", "o", "w">>, classes |-> {"Bow"}],
      [tag |-> <<"w", "a", "n", "d">>, classes |-> {"Wand"}],
      [tag |-> <<"d", "a", "g", "g", "e", "r">>, classes |-> {"Dagger"}],
      [tag |-> <<"c", "l", "a", "w">>, classes |-> {"Claw"}],
      [tag |-> <<"s", "t", "a", "f", "f">>, classes |-> {"Staff"}],
      [tag |-> <<"s", "c", "e", "p", "t", "r", "e">>, classes |-> {"Sceptre"}],
      [tag |-> <<"q", "u", "i", "v", "e", "r">>, classes |-> {"Quiver"}],
      [tag |-> <<"j", "e", "w", "e", "l">>, classes |-> {"Jewel"}],
      [tag |-> <<"f", "l", "a", "s", "k">>, classes |-> {"Flask"}]>>

\* lines 229-231: item_classes after the first n mappings, a list whose
\* order the result does not keep: the bag of its elements
RECURSIVE ExtendedClasses(_, _)
ExtendedClasses(tag_lower, n) ==
    IF n = 0 THEN EmptyBag
    ELSE ExtendedClasses(tag_lower, n - 1)
           (+) (IF HasSubstring(tag_lower, TagMappings[n].tag)
                THEN SetToBag(TagMappings[n].classes) ELSE EmptyBag)

\* a list that keeps every copy
KeepsDuplicates(item_classes) == item_classes

\* line 234: list(set(item_classes))
Deduplicate(item_classes) == SetToBag(BagToSet(item_classes))

\* lines 237-238: the default when nothing matched
ParseTagsOf(hit) == IF BagToSet(hit) = {} THEN SetToBag({"universal"}) ELSE hit

\* parse_tags(tags), lines 187-240: the bag of the elements of the list returned
ParseTagsList(tags) ==
    ParseTagsOf(Deduplicate(ExtendedClasses(Lower(tags), Len(TagMappings))))

\* the classes parse_tags(tags) returns
ParseTags(tags) == BagToSet(ParseTagsList(tags))

\* str.split(','), from place i on with the piece begun at place from
RECURSIVE SplitFrom(_, _, _)
SplitFrom(s, from, i) ==
    IF i > Len(s) THEN <<PyStr(SubSeq(s, from, Len(s)))>>
    ELSE IF s[i] = "," THEN <<PyStr(SubSeq(s, from, i - 1))>> \o SplitFrom(s, i + 1, i + 1)
    ELSE SplitFrom(s, from, i + 1)

SplitCommas(s) == SplitFrom(s, 1, 1)

\* a test of the name cell that tells upper case from lower case
SkippedNameExact(mod_name) ==
    mod_name = <<>> \/ mod_name \in {<<"n", "a", "m", "e">>, <<"m", "o", "d">>}

\* lines 119-120: the name cell is empty or reads name or mod
SkippedName(mod_name) ==
    mod_name = <<>> \/ Lower(mod_name) \in {<<"n", "a", "m", "e">>, <<"m", "o", "d">>}

\* lines 122-144: the record of a row whose cells read name, tier, ilvl_text, tags
ModRecord(mod_name, tier, ilvl_text, tags, mod_type) ==
    PyDict([name |-> PyStr(mod_name),
            type |-> PyStr(mod_type),
            tier |-> PyStr(tier),
            ilvl |-> PyInt(ParseIlvl(ilvl_text)),
            tags |-> PyList(IF tags = <<>> THEN <<>> ELSE SplitCommas(tags)),
            item_classes |-> [t |-> "set", v |-> ParseTags(tags)],
            stat_ranges |-> ExtractStatRanges(mod_name),
            source |-> PyStr(<<"p", "o", "e", "d", "b">>)])

\* lines 109-150: the records one row adds: one or none
RowRecords(row, mod_type) ==
    IF Len(row.td) < 3 THEN <<>>
    ELSE IF SkippedName(Strip(row.td[1])) THEN <<>>
    ELSE <<ModRecord(Strip(row.td[1]), Strip(row.td[2]), Strip(row.td[3]),
                     IF Len(row.td) > 3 THEN Strip(row.td[4]) ELSE <<>>, mod_type)>>

\* lines 108-150: the loop over the rows of one table
RECURSIVE TableRecords(_, _)
TableRecords(rows, mod_type) ==
    IF rows = <<>> THEN <<>>
    ELSE RowRecords(Head(rows), mod_type) \o TableRecords(Tail(rows), mod_type)

\* parse_mod_table(soup, mod_type), lines 82-152
RECURSIVE ParseModTable(_, _)
ParseModTable(tables, mod_type) ==
    IF tables = <<>> THEN <<>>
    ELSE TableRecords(Head(tables), mod_type) \o ParseModTable(Tail(tables), mod_type)

Prefix == <<"p", "r", "e", "f", "i", "x">>
Suffix == <<"s", "u", "f", "f", "i", "x">>

(***************************************************************************)
(* What the sites can answer: the inputs of the model.                     *)
(***************************************************************************)
SeqsUpTo(S, n) == UNION {[1..m -> S] : m \in 0..n}

RawX == PyDict([character |-> PyStr(<<"X">>), totalDps |-> PyStr(<<"5", "k">>)])
RawFoo == PyDict([name |-> PyStr(<<"F">>), class |-> PyStr(<<"W">>),
                  level |-> PyStr(<<"9", "0">>)])
RawBad == PyStr(<<"x">>)            \* an array element that is no object
RawPool == {RawX, RawFoo, RawBad}

Arrays == SeqsUpTo(RawPool, MaxItems)
ShortArrays == SeqsUpTo(RawPool, 1)

\* the values found under builds / snapshot / data in the page properties
Payloads ==
    {PyList(a) : a \in Arrays}
      \cup {PyDict([characters |-> PyList(a)]) : a \in Arrays}
      \cup {PyDict([builds |-> None, data |-> PyList(a)]) : a \in ShortArrays}
      \cup {PyStr(<<"x">>), None}

PageProps ==
    {EmptyDict, PyDict([other |-> None])}
      \cup {PyDict([builds |-> q]) : q \in Payloads}
      \cup {PyDict([snapshot |-> q]) : q \in Payloads}
      \cup {PyDict([data |-> q]) : q \in Payloads}
      \cup {PyDict([builds |-> PyList(<<>>), snapshot |-> PyList(<<RawX>>)]),
            PyDict([snapshot |-> PyList(<<RawX>>), data |-> PyList(<<RawFoo>>)])}

\* what page.evaluate gives for window.__NEXT_DATA__ || null
NextDatas ==
    {None, EmptyDict, PyDict([other |-> None]), PyDict([props |-> None]),
     PyDict([props |-> EmptyDict]), PyDict([props |-> PyDict([pageProps |-> None])])}
      \cup {PyDict([props |-> PyDict([pageProps |-> q])]) : q \in PageProps}

\* what element.evaluate gives: the seven texts, each a string or null
ElemData(n, c, l) ==
    PyDict([name |-> n, class |-> c, level |-> l, skill |-> None, dps |-> None,
            life |-> None, energy_shield |-> None])

ElemResults ==
    {Exc("Error"),
     ElemData(PyStr(<<"A">>), None, None),
     ElemData(None, PyStr(<<"W">>), PyStr(<<"9", "0">>)),
     ElemData(None, None, PyStr(<<"9">>)),
     ElemData(PyStr(<<>>), None, None)}

\* what response.json() gives for a response: a JSON value or an exception
ApiBodies ==
    {Exc("JSONDecodeError"), PyList(<<>>), PyList(<<RawX>>), PyList(<<RawBad>>),
     PyDict([builds |-> PyList(<<RawFoo>>)]), PyDict([snapshot |-> PyList(<<RawX>>)]),
     PyDict([builds |-> None])}

\* a response: whether its URL holds "/api/data" or "/builds", and its body
Responses == [match : BOOLEAN, body : ApiBodies]

(***************************************************************************)
(* The invocation.                                                          *)
(***************************************************************************)
\* line 96: build_elements[:100]
ScanLimit == 100

MaxOver == 2        \* most elements a page matches beyond ScanLimit

\* what element.evaluate gives for the element at place i of a page whose
\* elements are all of one kind
ElemOf(kind, i) ==
    CASE kind = "named" -> ElemData(PyStr(<<"A">>), None, None)
      [] kind = "nameless" -> ElemData(None, None, PyStr(<<"9">>))
      [] kind = "failing_odd" ->
           IF i % 2 = 1 THEN Exc("Error") ELSE ElemData(None, PyStr(<<"W">>), None)
      [] OTHER ->
           IF i % 3 = 1 THEN ElemData(PyStr(<<"A">>), None, None)
           ELSE IF i % 3 = 2 THEN Exc("Error")
           ELSE ElemData(PyStr(<<>>), None, None)

\* the pages whose DOM is fixed: the number of elements matched and their kind
Pages ==
    {[t |-> "page", n |-> 0, kind |-> "named"]}
      \cup [t : {"page"},
            n : {1, ScanLimit - 1, ScanLimit, ScanLimit + 1, ScanLimit + MaxOver},
            kind : {"named", "nameless", "failing_odd", "mixed"}]

\* the numbers of elements query_selector_all can match
MatchCounts == IF pin.t = "page" THEN {pin.n} ELSE 0..MaxElems

\* what element.evaluate can give for the element at place i
ElemAnswers(i) == IF pin.t = "page" THEN {ElemOf(pin.kind, i)} ELSE ElemResults

NoResult == [t |-> "noresult"]

CallNames == {"launch", "new_context", "new_page", "goto", "wait_for_selector",
              "evaluate", "query_selector_all", "element_evaluate", "on",
              "wait_for_timeout", "content", "close"}

Issue(c) == [calls EXCEPT ![c] = @ + 1]

Min(a, b) == IF a < b THEN a ELSE b

\* the tables of a database just created (mod_db.py line 40)
EmptyTables == [mods |-> <<>>, builds |-> <<>>]

\* no session is open
NoSession == [t |-> "none"]

\* the scrapers before anything ran
InitScrapers ==
    /\ pw = "none"
    /\ browser = "none"
    /\ calls = [c \in CallNames |-> 0]
    /\ builds = <<>>
    /\ matched = 0
    /\ idx = 0
    /\ listening = FALSE
    /\ arrived = 0
    /\ pending = <<>>
    /\ api_data = <<>>
    /\ produced = [s \in 1..3 |-> -1]
    /\ swallowed = {}
    /\ content = None
    /\ data = None
    /\ status = -1
    /\ all_mods = [prefix |-> <<>>, suffix |-> <<>>]
    /\ retval = NoResult
    /\ failedAt = "none"
    /\ raising = FALSE
    /\ outcome = "running"
    /\ result = NoResult
    /\ pout = NoResult

\* the state before anything ran, but for op, pc and pin
InitBase ==
    /\ InitScrapers
    /\ db = EmptyTables
    /\ session = NoSession
    /\ total_stored = 0
    /\ db0 = EmptyTables
    /\ inv = <<>>

\* the server is up and no request has come in
Init ==
    /\ InitBase
    /\ op = "none"
    /\ pc = "idle"
    /\ pin = None

\* the locals of scrape_builds
bvars == <<builds, matched, idx, listening, arrived, pending, api_data, produced>>
\* the locals of scrape_market_data
mvars == <<content, data, status, retval>>
\* the locals of scrape_all_mods
dvars == <<all_mods>>
\* the pure functions' harness
pvars == <<pin, pout>>
\* the caller's view
cvars == <<outcome, result>>
\* the database handler and the concurrent invocations
xvars == <<db, session, total_stored, db0, inv>>

\* the request handlers of main.py call one scraper method
Start(o) ==
    /\ pc = "idle"
    /\ op' = o
    /\ pc' = "enter"
    /\ UNCHANGED <<pw, browser, calls, bvars, swallowed, mvars, dvars, failedAt,
                   raising, pvars, cvars, xvars>>

\* async with async_playwright() as p: entering the scope; inside it the
\* first call is p.chromium.launch
EnterScope ==
    /\ pc = "enter"
    /\ \/ /\ pw' = "started"
          /\ pc' = "launch"
          /\ calls' = Issue("launch")
          /\ UNCHANGED <<failedAt, raising, cvars>>
       \/ /\ pw' = "none"
          /\ pc' = "done"
          /\ failedAt' = "enter"
          /\ raising' = TRUE
          /\ outcome' = "raised"
          /\ result' = NoResult
          /\ UNCHANGED calls
    /\ UNCHANGED <<op, browser, bvars, swallowed, mvars, dvars, pvars, xvars>>

(***************************************************************************)
(* PoeNinjaScraper.scrape_builds.  An action is the completion of one      *)
(* await, with the code that follows it up to the next awaited call; a     *)
(* call is counted in `calls` when it is issued.                           *)
(***************************************************************************)
\* what scrape_builds leaves alone
B_Frame == UNCHANGED <<op, pw, mvars, dvars, pvars, cvars, xvars>>

\* lines 157-159: except Exception as e: log it and raise
B_Except(at) ==
    /\ failedAt' = at
    /\ raising' = TRUE
    /\ pc' = "exit"
    /\ UNCHANGED calls

\* the await at pc completes and the code runs on to the call of `next`
B_Proceed(next) ==
    /\ pc' = next
    /\ calls' = Issue(next)
    /\ UNCHANGED <<failedAt, raising>>

\* line 42: browser = await p.chromium.launch(headless=True)
B_Launch ==
    /\ op = "builds" /\ pc = "launch"
    /\ \/ browser' = "open" /\ B_Proceed("new_context")
       \/ browser' = browser /\ B_Except("launch")
    /\ UNCHANGED <<bvars, swallowed>>
    /\ B_Frame

\* lines 43-46: context = await browser.new_context(...)
B_NewContext ==
    /\ op = "builds" /\ pc = "new_context"
    /\ \/ B_Proceed("new_page")
       \/ B_Except("new_context")
    /\ UNCHANGED <<browser, bvars, swallowed>>
    /\ B_Frame

\* line 47: page = await context.new_page()
B_NewPage ==
    /\ op = "builds" /\ pc = "new_page"
    /\ \/ B_Proceed("goto")
       \/ B_Except("new_page")
    /\ UNCHANGED <<browser, bvars, swallowed>>
    /\ B_Frame

\* line 52: await page.goto(url, wait_until="networkidle", timeout=self.timeout)
B_Goto ==
    /\ op = "builds" /\ pc = "goto"
    /\ \/ B_Proceed("wait_for_selector")
       \/ B_Except("goto")
    /\ UNCHANGED <<browser, bvars, swallowed>>
    /\ B_Frame

\* an element wait whose exception reaches the except of line 157
B_WaitForSelectorFatal ==
    /\ op = "builds" /\ pc = "wait_for_selector"
    /\ \/ swallowed' = swallowed /\ B_Proceed("evaluate")
       \/ swallowed' = swallowed \cup {"wait_for_selector"} /\ B_Except("wait_for_selector")
    /\ UNCHANGED <<browser, bvars>>
    /\ B_Frame

\* lines 55-67: the element wait; its exception is logged and dropped, and
\* either way page.evaluate is called next
B_WaitForSelector ==
    /\ op = "builds" /\ pc = "wait_for_selector"
    /\ \/ swallowed' = swallowed
       \/ swallowed' = swallowed \cup {"wait_for_selector"}
    /\ B_Proceed("evaluate")
    /\ UNCHANGED <<browser, bvars>>
    /\ B_Frame

\* lines 127-143 when `builds` is empty: api_data = [], page.on("response",
\* handle_response) and the call of page.wait_for_timeout(3000)
B_EnterStrategy3 ==
    /\ api_data' = <<>>
    /\ listening' = TRUE
    /\ calls' = [calls EXCEPT !["on"] = @ + 1, !["wait_for_timeout"] = @ + 1]
    /\ pc' = "wait_for_timeout"

\* lines 126-155 after the loop of strategy 2 ended with the list b
B_AfterStrategy2(b) ==
    /\ produced' = [produced EXCEPT ![2] = Len(b)]
    /\ IF b = <<>>
       THEN B_EnterStrategy3
       ELSE pc' = "close" /\ calls' = Issue("close") /\ UNCHANGED <<api_data, listening>>

\* strategy 1 followed by the DOM query whatever it found
B_AfterStrategy1Unguarded(r) ==
    IF IsExc(r)
    THEN /\ B_Except("strategy1")
         /\ UNCHANGED <<builds, produced>>
    ELSE /\ builds' = r.v
         /\ produced' = [produced EXCEPT ![1] = Len(r.v)]
         /\ B_Proceed("query_selector_all")

\* strategy 1 whose exception is taken for an empty result
B_AfterStrategy1FallsThrough(r) ==
    IF IsExc(r)
    THEN /\ failedAt' = "strategy1"
         /\ raising' = raising
         /\ builds' = <<>>
         /\ produced' = [produced EXCEPT ![1] = 0]
         /\ pc' = "query_selector_all"
         /\ calls' = Issue("query_selector_all")
    ELSE /\ builds' = r.v
         /\ produced' = [produced EXCEPT ![1] = Len(r.v)]
         /\ B_Proceed(IF r.v = <<>> THEN "query_selector_all" ELSE "close")

\* lines 77-94 once strategy 1 gave r: an exception escapes, or `builds` is
\* r and, when it is empty, page.query_selector_all is called
B_AfterStrategy1(r) ==
    IF IsExc(r)
    THEN /\ B_Except("strategy1")
         /\ UNCHANGED <<builds, produced>>
    ELSE /\ builds' = r.v
         /\ produced' = [produced EXCEPT ![1] = Len(r.v)]
         /\ B_Proceed(IF r.v = <<>> THEN "query_selector_all" ELSE "close")

\* lines 67-94: the read of window.__NEXT_DATA__ and strategy 1
B_Evaluate ==
    /\ op = "builds" /\ pc = "evaluate"
    /\ \/ /\ B_Except("evaluate")
          /\ UNCHANGED <<builds, produced>>
       \/ \E nd \in NextDatas : B_AfterStrategy1(Strategy1(nd))
    /\ UNCHANGED <<browser, matched, idx, listening, arrived, pending, api_data, swallowed>>
    /\ B_Frame

\* a scan of every element matched
ScannedAll(n) == n

\* line 96: build_elements[:100]: how many of n elements are scanned
Scanned(n) == Min(n, ScanLimit)

\* lines 92-96: query_selector_all raises, or returns n elements of which
\* the loop takes the first ScanLimit
B_QuerySelectorAll ==
    /\ op = "builds" /\ pc = "query_selector_all"
    /\ \/ /\ B_Except("query_selector_all")
          /\ UNCHANGED <<matched, idx, produced, api_data, listening>>
       \/ \E n \in MatchCounts :
            /\ matched' = n
            /\ idx' = 0
            /\ IF Scanned(n) = 0
               THEN B_AfterStrategy2(builds) /\ UNCHANGED <<failedAt, raising>>
               ELSE B_Proceed("element_evaluate") /\ UNCHANGED <<produced, api_data, listening>>
    /\ UNCHANGED <<browser, builds, arrived, pending, swallowed>>
    /\ B_Frame

\* lines 119-124: what the loop body makes of the answer e of element.evaluate:
\* a record to append, None to append nothing, or the exception it catches
ElementRecord(e) ==
    IF IsExc(e) THEN e
    ELSE IF KeepElement(e) THEN NormalizeBuild(e)
    ELSE None

\* lines 96-127: the end of one turn of the loop that leaves the list b
B_NextElement(b) ==
    /\ builds' = b
    /\ idx' = idx + 1
    /\ IF idx + 1 < Scanned(matched)
       THEN /\ pc' = "element_evaluate"
            /\ calls' = Issue("element_evaluate")
            /\ UNCHANGED <<produced, api_data, listening>>
       ELSE B_AfterStrategy2(b)

\* lines 119-124: append the record, or pass over the element
B_LoopBody(rec) ==
    /\ swallowed' = IF IsExc(rec) THEN swallowed \cup {"element"} ELSE swallowed
    /\ B_NextElement(IF rec.t = "dict" THEN Append(builds, rec) ELSE builds)

\* lines 96-124: one turn of the loop: element.evaluate answers e
B_ElementEvaluate ==
    /\ op = "builds" /\ pc = "element_evaluate"
    /\ \E e \in ElemAnswers(idx + 1) : B_LoopBody(ElementRecord(e))
    /\ UNCHANGED <<browser, matched, arrived, pending, failedAt, raising>>
    /\ B_Frame

\* lines 131-132: the page delivers a response to handle_response, which
\* returns at once or suspends in response.json()
B_HandleResponse ==
    /\ op = "builds" /\ listening /\ browser = "open"
    /\ pc \in {"wait_for_timeout", "close"}
    /\ arrived < MaxResponses
    /\ \E r \in Responses :
         /\ arrived' = arrived + 1
         /\ pending' = IF r.match THEN Append(pending, r.body) ELSE pending
    /\ UNCHANGED <<pc, browser, calls, builds, matched, idx, listening, api_data,
                   produced, swallowed, failedAt, raising>>
    /\ B_Frame

\* a handler whose exception ends the invocation
B_ResponseJsonAborts ==
    /\ op = "builds" /\ pc \in {"wait_for_timeout", "close"}
    /\ \E i \in 1..Len(pending) :
         /\ pending' = SubSeq(pending, 1, i - 1) \o SubSeq(pending, i + 1, Len(pending))
         /\ IF IsExc(pending[i])
            THEN /\ api_data' = api_data /\ swallowed' = swallowed
                 /\ B_Except("json")
            ELSE /\ api_data' = Append(api_data, pending[i]) /\ swallowed' = swallowed
                 /\ UNCHANGED <<pc, failedAt, raising, calls>>
    /\ UNCHANGED <<browser, builds, matched, idx, listening, arrived, produced>>
    /\ B_Frame

\* lines 133-138: response.json() of a suspended handler completes: the
\* payload is appended, or the exception is passed over
B_ResponseJson ==
    /\ op = "builds" /\ pc \in {"wait_for_timeout", "close"}
    /\ \E i \in 1..Len(pending) :
         /\ pending' = SubSeq(pending, 1, i - 1) \o SubSeq(pending, i + 1, Len(pending))
         /\ IF IsExc(pending[i])
            THEN api_data' = api_data /\ swallowed' = swallowed \cup {"json"}
            ELSE api_data' = Append(api_data, pending[i]) /\ swallowed' = swallowed
    /\ UNCHANGED <<pc, browser, calls, builds, matched, idx, listening, arrived,
                   produced, failedAt, raising>>
    /\ B_Frame

\* strategy 3 that raises when it, too, found nothing
B_AfterStrategy3Strict(r) ==
    IF IsExc(r)
    THEN B_Except("strategy3") /\ UNCHANGED <<builds, produced>>
    ELSE /\ builds' = builds \o r.v
         /\ produced' = [produced EXCEPT ![3] = Len(r.v)]
         /\ IF builds \o r.v = <<>>
            THEN raising' = TRUE /\ pc' = "exit" /\ UNCHANGED <<failedAt, calls>>
            ELSE B_Proceed("close")

\* lines 146-155 once the payloads flattened to r
B_AfterStrategy3(r) ==
    IF IsExc(r)
    THEN B_Except("strategy3") /\ UNCHANGED <<builds, produced>>
    ELSE /\ builds' = builds \o r.v
         /\ produced' = [produced EXCEPT ![3] = Len(r.v)]
         /\ B_Proceed("close")

\* lines 143-155: the wait ends and the captured payloads are flattened
B_WaitForTimeout ==
    /\ op = "builds" /\ pc = "wait_for_timeout"
    /\ \/ B_Except("wait_for_timeout") /\ UNCHANGED <<builds, produced>>
       \/ B_AfterStrategy3(Flatten(api_data))
    /\ UNCHANGED <<browser, matched, idx, listening, arrived, pending, api_data, swallowed>>
    /\ B_Frame

\* line 155: await browser.close(); a close that raises leaves the session open
B_Close ==
    /\ op = "builds" /\ pc = "close"
    /\ \/ browser' = "closed" /\ pc' = "exit" /\ UNCHANGED <<failedAt, raising, calls>>
       \/ browser' = browser /\ B_Except("close")
    /\ UNCHANGED <<bvars, swallowed>>
    /\ B_Frame

BuildsNext ==
    \/ B_Launch \/ B_NewContext \/ B_NewPage \/ B_Goto \/ B_WaitForSelector
    \/ B_Evaluate \/ B_QuerySelectorAll \/ B_ElementEvaluate \/ B_HandleResponse
    \/ B_ResponseJson \/ B_WaitForTimeout \/ B_Close

(***************************************************************************)
(* PoeNinjaScraper.scrape_market_data                                      *)
(***************************************************************************)
MarketItem == PyDict([chaosValue |-> PyInt(1)])

\* what JSON.parse or json.loads can give
JsonValues ==
    {None, PyInt(0), PyInt(5), PyStr(<<"x">>), PyList(<<>>), PyList(<<MarketItem>>),
     EmptyDict, PyDict([other |-> PyInt(1)]), PyDict([lines |-> PyList(<<>>)]),
     PyDict([lines |-> PyList(<<MarketItem>>)])}

\* a document text, by what json.loads makes of it
Contents == {[json |-> j] : j \in JsonValues \cup {Exc("JSONDecodeError")}}

JsonLoads(c) == c.json

\* the status of the response page.goto resolves to
Statuses == {200, 404, 500}

\* what scrape_market_data leaves alone
M_Frame == UNCHANGED <<op, pw, bvars, swallowed, dvars, pvars, cvars, xvars>>

\* an exception handler that does not call browser.close()
M_ExceptNoClose(at) ==
    /\ failedAt' = at
    /\ pc' = "exit"
    /\ UNCHANGED calls

\* lines 258-260: except Exception as e: log it and call browser.close()
M_Except(at) ==
    /\ failedAt' = at
    /\ pc' = "except_close"
    /\ calls' = Issue("close")

\* the await at pc completes and the code runs on to the call of `next`
M_Proceed(next) ==
    /\ pc' = next
    /\ calls' = Issue(next)
    /\ UNCHANGED failedAt

\* an exception outside the try statement leaves the function at once
M_Escape(at) ==
    /\ failedAt' = at
    /\ raising' = TRUE
    /\ pc' = "exit"
    /\ UNCHANGED calls

\* line 221: launch, outside the try statement
M_Launch ==
    /\ op = "market" /\ pc = "launch"
    /\ \/ browser' = "open" /\ M_Proceed("new_page") /\ UNCHANGED raising
       \/ browser' = browser /\ M_Escape("launch")
    /\ UNCHANGED mvars
    /\ M_Frame

\* line 222: new_page, outside the try statement
M_NewPage ==
    /\ op = "market" /\ pc = "new_page"
    /\ \/ M_Proceed("goto") /\ UNCHANGED raising
       \/ M_Escape("new_page")
    /\ UNCHANGED <<browser, mvars>>
    /\ M_Frame

\* a status test that takes 404 alone for fatal
M_CheckStatusLenient(st) ==
    /\ status' = st
    /\ IF st = 404 THEN M_Except("status") ELSE M_Proceed("content")

\* lines 231-235: the status test and, on 200, the call of page.content()
M_CheckStatus(st) ==
    /\ status' = st
    /\ IF st # 200 THEN M_Except("status") ELSE M_Proceed("content")

\* lines 229-235: page.goto raises, resolves to no response (status 0 here),
\* or to a response
M_Goto ==
    /\ op = "market" /\ pc = "goto"
    /\ \/ M_Except("goto") /\ UNCHANGED status
       \/ M_Except("no_response") /\ status' = 0
       \/ \E st \in Statuses : M_CheckStatus(st)
    /\ UNCHANGED <<browser, content, data, retval, raising>>
    /\ M_Frame

\* lines 235-246: page.content() answers and page.evaluate is called
M_Content ==
    /\ op = "market" /\ pc = "content"
    /\ \/ M_Except("content") /\ UNCHANGED content
       \/ \E c \in Contents : content' = c /\ M_Proceed("evaluate")
    /\ UNCHANGED <<browser, data, status, retval, raising>>
    /\ M_Frame

\* lines 248-253: the fallback to the whole document when data is falsy
BodyFallback(d, c) ==
    IF Truthy(d) THEN d
    ELSE IF IsExc(JsonLoads(c)) THEN EmptyDict
    ELSE JsonLoads(c)

\* lines 238-255: page.evaluate raises (JSON.parse threw, or the page went
\* away), or answers the parsed <pre> text, null without a <pre>
M_Evaluate ==
    /\ op = "market" /\ pc = "evaluate"
    /\ \/ M_Except("evaluate") /\ UNCHANGED data
       \/ \E d \in JsonValues : data' = BodyFallback(d, content) /\ M_Proceed("close")
    /\ UNCHANGED <<browser, content, status, retval, raising>>
    /\ M_Frame

\* line 256: data.get("lines", []), or the AttributeError of a data that is no dict
Lines(d) ==
    IF d.t = "dict" THEN GetOr(d, "lines", PyList(<<>>)) ELSE Exc("AttributeError")

\* line 256 once the browser is closed: return, or raise into the handler
M_Return(r) ==
    IF IsExc(r)
    THEN M_Except("lines") /\ UNCHANGED retval
    ELSE retval' = r /\ pc' = "exit" /\ UNCHANGED <<failedAt, calls>>

\* lines 255-256: browser.close() completes, then the return statement
M_Close ==
    /\ op = "market" /\ pc = "close"
    /\ \/ browser' = "closed" /\ M_Return(Lines(data))
       \/ browser' = browser /\ M_Except("close") /\ UNCHANGED retval
    /\ UNCHANGED <<content, data, status, raising>>
    /\ M_Frame

\* lines 260-261: the handler's browser.close() completes or raises; either
\* way an exception leaves the function
M_ExceptClose ==
    /\ op = "market" /\ pc = "except_close"
    /\ \/ browser' = "closed"
       \/ browser' = browser
    /\ raising' = TRUE
    /\ pc' = "exit"
    /\ UNCHANGED <<calls, mvars, failedAt>>
    /\ M_Frame

MarketNext ==
    \/ M_Launch \/ M_NewPage \/ M_Goto \/ M_Content \/ M_Evaluate \/ M_Close
    \/ M_ExceptClose

(***************************************************************************)
(* PoeDBScraper.scrape_all_mods                                            *)
(***************************************************************************)
HeaderRow == [th |-> <<<<"N", "a", "m", "e">>>>, td |-> <<>>]
RowRange == [th |-> <<>>,
             td |-> <<<<"(", "1", "-", "2", ")">>, <<"T", "1">>, <<"6", "8">>,
                      <<"r", "i", "n", "g">>>>]
RowPlain == [th |-> <<>>, td |-> <<<<"L">>, <<"T", "2">>, <<"x">>>>]
RowShort == [th |-> <<>>, td |-> <<<<"L">>, <<"T", "1">>>>]

\* the documents poedb can serve
Docs ==
    {<<>>, <<<<HeaderRow, RowRange>>>>, <<<<HeaderRow, RowRange, RowPlain>>>>,
     <<<<RowShort>>>>}

\* what scrape_all_mods leaves alone
D_Frame == UNCHANGED <<op, pw, bvars, swallowed, mvars, pvars, cvars, xvars>>

\* an exception handler that logs and does not raise again
D_ExceptSwallows(at) ==
    /\ failedAt' = at
    /\ raising' = FALSE
    /\ pc' = "finally_close"
    /\ calls' = Issue("close")

\* lines 74-78: except Exception as e: log it and raise; then the finally
\* clause calls browser.close()
D_Except(at) ==
    /\ failedAt' = at
    /\ raising' = TRUE
    /\ pc' = "finally_close"
    /\ calls' = Issue("close")

\* the await at pc completes and the code runs on to the call of `call`
D_Proceed(next, call) ==
    /\ pc' = next
    /\ calls' = Issue(call)
    /\ UNCHANGED <<failedAt, raising>>

\* an exception outside the try statement leaves the function at once
D_Escape(at) ==
    /\ failedAt' = at
    /\ raising' = TRUE
    /\ pc' = "exit"
    /\ UNCHANGED calls

\* line 44: launch, outside the try statement
D_Launch ==
    /\ op = "mods" /\ pc = "launch"
    /\ \/ browser' = "open" /\ D_Proceed("new_page", "new_page")
       \/ browser' = browser /\ D_Escape("launch")
    /\ UNCHANGED dvars
    /\ D_Frame

\* line 45: new_page, outside the try statement
D_NewPage ==
    /\ op = "mods" /\ pc = "new_page"
    /\ \/ D_Proceed("goto", "goto")
       \/ D_Escape("new_page")
    /\ UNCHANGED <<browser, dvars>>
    /\ D_Frame

\* line 51: the prefix page; line 65: the suffix page
D_Goto ==
    /\ op = "mods" /\ pc \in {"goto", "goto_suffix"}
    /\ \/ D_Proceed(IF pc = "goto" THEN "wait_for_selector" ELSE "wait_for_selector_suffix",
                    "wait_for_selector")
       \/ D_Except(pc)
    /\ UNCHANGED <<browser, dvars>>
    /\ D_Frame

\* lines 52 and 66: await page.wait_for_selector("table", timeout=10000)
D_WaitForSelector ==
    /\ op = "mods" /\ pc \in {"wait_for_selector", "wait_for_selector_suffix"}
    /\ \/ D_Proceed(IF pc = "wait_for_selector" THEN "content" ELSE "content_suffix", "content")
       \/ D_Except(pc)
    /\ UNCHANGED <<browser, dvars>>
    /\ D_Frame

\* lines 55-65: the prefix page is parsed into all_mods["prefix"] and the
\* suffix page is asked for
D_Content ==
    /\ op = "mods" /\ pc = "content"
    /\ \/ D_Except("content") /\ UNCHANGED all_mods
       \/ \E doc \in Docs :
            /\ all_mods' = [all_mods EXCEPT !.prefix = ParseModTable(doc, Prefix)]
            /\ D_Proceed("goto_suffix", "goto")
    /\ UNCHANGED browser
    /\ D_Frame

\* lines 68-78: the suffix page is parsed into all_mods["suffix"]; the
\* finally clause calls browser.close()
D_ContentSuffix ==
    /\ op = "mods" /\ pc = "content_suffix"
    /\ \/ D_Except("content_suffix") /\ UNCHANGED all_mods
       \/ \E doc \in Docs :
            /\ all_mods' = [all_mods EXCEPT !.suffix = ParseModTable(doc, Suffix)]
            /\ D_Proceed("finally_close", "close")
    /\ UNCHANGED browser
    /\ D_Frame

\* lines 77-78: the finally clause's browser.close() completes, or raises
\* and its exception leaves the function
D_FinallyClose ==
    /\ op = "mods" /\ pc = "finally_close"
    /\ \/ browser' = "closed" /\ UNCHANGED <<failedAt, raising>>
       \/ /\ browser' = browser
          /\ raising' = TRUE
          /\ failedAt' = IF failedAt = "none" THEN "close" ELSE failedAt
    /\ pc' = "exit"
    /\ UNCHANGED <<calls, dvars>>
    /\ D_Frame

ModsNext ==
    \/ D_Launch \/ D_NewPage \/ D_Goto \/ D_WaitForSelector \/ D_Content
    \/ D_ContentSuffix \/ D_FinallyClose

\* a scope whose exit leaves the browser as it is
ScopeExitKeepsBrowser(b) == b

(***************************************************************************)
(* Leaving the async_playwright() scope and handing over to the caller     *)
(***************************************************************************)
\* leaving `async with async_playwright()` stops the driver, and the
\* browsers it launched go down with it
ScopeExitBrowser(b) == IF b = "open" THEN "torn_down" ELSE b

\* the value of the return statement the invocation reached
ReturnValue ==
    CASE op = "builds" -> PyList(builds)
      [] op = "market" -> retval
      [] OTHER -> PyDict(all_mods)

ScopeExit ==
    /\ pc = "exit"
    /\ pw' = "stopped"
    /\ browser' = ScopeExitBrowser(browser)
    /\ outcome' = IF raising THEN "raised" ELSE "returned"
    /\ result' = IF raising THEN NoResult ELSE ReturnValue
    /\ pc' = "done"
    /\ UNCHANGED <<op, calls, bvars, swallowed, mvars, dvars, failedAt, raising, pvars,
                   xvars>>

Next ==
    \/ \E o \in {"builds", "market", "mods"} : Start(o)
    \/ EnterScope
    \/ BuildsNext
    \/ MarketNext
    \/ ModsNext
    \/ ScopeExit

Spec == Init /\ [][Next]_vars

\* scrape_builds on the pages whose DOM is fixed
InitScan ==
    /\ InitBase
    /\ op = "none"
    /\ pc = "idle"
    /\ pin \in Pages

ScanNext ==
    \/ Start("builds")
    \/ EnterScope
    \/ BuildsNext
    \/ ScopeExit

SpecScan == InitScan /\ [][ScanNext]_vars

(***************************************************************************)
(* The pure functions on their own: the input is drawn, the function is    *)
(* called once.                                                            *)
(***************************************************************************)
\* the characters of the strings handed to _parse_int; with the digits 1 and 2
\* every number a string of MaxStrLen + 1 characters stands for is below 2^31
Alphabet == {"1", "2", ",", "k", "K", ".", "-", "a"}

Strings == SeqsUpTo(Alphabet, MaxStrLen)

\* values of every type _parse_int can be handed
ParseIntInputs ==
    {None, PyBool(TRUE), PyBool(FALSE), PyList(<<>>), EmptyDict}
      \cup {PyInt(n) : n \in -2..2}
      \cup {PyFloat("fin", neg, ip, fr) : neg \in BOOLEAN, ip \in {0, 7}, fr \in {<<>>, <<"9">>}}
      \cup {PyFloat(k, neg, 0, <<>>) : k \in {"inf", "nan"}, neg \in BOOLEAN}
      \cup {PyStr(str) : str \in Strings}
      \cup {PyStr(<<"i", "n", "f">>), PyStr(<<"-", "I", "n", "f">>), PyStr(<<"n", "a", "n">>),
            PyStr(<<"i", "n", "f", "i", "n", "i", "t", "y">>)}
      \cup {PyStr(<<"1", "2", ",", "3", "4", "5">>), PyStr(<<"5", "k">>),
            PyStr(<<"1", ".", "2", "k">>), PyStr(<<"-", "1", ".", "9", "K">>)}

\* everything but the function call
PureFrame ==
    UNCHANGED <<op, pw, browser, calls, bvars, swallowed, mvars, dvars, failedAt, raising,
                cvars, pin, xvars>>

InitParseInt ==
    /\ InitBase
    /\ op = "_parse_int"
    /\ pc = "call"
    /\ pin \in ParseIntInputs

CallParseInt ==
    /\ op = "_parse_int" /\ pc = "call"
    /\ pout' = ParseInt(pin)
    /\ pc' = "done"
    /\ PureFrame

SpecParseInt == InitParseInt /\ [][CallParseInt]_vars

\* the keys _normalize_build looks up
NormalizeKeys ==
    {"name", "character", "class", "className", "level", "skill", "mainSkill",
     "main_skill", "dps", "totalDps", "life", "maxLife", "energy_shield",
     "energyShield", "es", "items", "url", "poeUrl"}

MaxKeys == 2        \* most keys of a raw record

FieldValues ==
    {None, PyStr(<<>>), PyStr(<<"X">>), PyStr(<<"5", "k">>), PyStr(<<"-", "5">>),
     PyInt(0), PyInt(7)}

\* the sets of at most n of the keys
RECURSIVE KeySetsUpTo(_)
KeySetsUpTo(n) ==
    IF n = 0 THEN {{}}
    ELSE {S \cup K : S \in KeySetsUpTo(n - 1), K \in {{}} \cup {{k} : k \in NormalizeKeys}}

\* the raw records with the keys K
RawRecords(K) == {PyDict(f) : f \in [K -> FieldValues]}

\* values that are no record
NotRecords == {RawBad, None, PyList(<<>>)}

InitNormalize ==
    /\ InitBase
    /\ op = "_normalize_build"
    /\ pc = "call"
    /\ \/ pin \in NotRecords
       \/ \E K \in KeySetsUpTo(MaxKeys) : pin \in RawRecords(K)

CallNormalize ==
    /\ op = "_normalize_build" /\ pc = "call"
    /\ pout' = NormalizeBuild(pin)
    /\ pc' = "done"
    /\ PureFrame

SpecNormalize == InitNormalize /\ [][CallNormalize]_vars

MaxPieces == 3      \* most pieces of a tag text

\* pieces of the tag texts poedb shows
TagPieces ==
    {<<"r", "i", "n", "g">>, <<"j", "e", "w", "e", "l", "l", "e", "r", "y">>,
     <<"B", "e", "l", "t">>, <<"b", "e", "l", "t", "w", "a", "y">>,
     <<"a", "r", "m", "o", "u", "r">>, <<"h", "e", "l", "m">>, <<"x">>, <<",", " ">>,
     <<"w", "e", "a", "p", "o", "n">>, <<"a", "x">>, <<"e">>}

\* the texts made of at most n pieces
RECURSIVE TagTexts(_)
TagTexts(n) ==
    IF n = 0 THEN {<<>>}
    ELSE {t \o q : t \in TagTexts(n - 1), q \in TagPieces \cup {<<>>}}

InitParseTags ==
    /\ InitBase
    /\ op = "parse_tags"
    /\ pc = "call"
    /\ pin \in {PyStr(t) : t \in TagTexts(MaxPieces)}

CallParseTags ==
    /\ op = "parse_tags" /\ pc = "call"
    /\ pout' = [t |-> "bag", v |-> ParseTagsList(pin.v)]
    /\ pc' = "done"
    /\ PureFrame

SpecParseTags == InitParseTags /\ [][CallParseTags]_vars

\* the page of one build: {props: {pageProps: {builds: [{character: "Foo",
\* class: "Witch", level: "90"}]}}}
FooPage ==
    PyDict([props |-> PyDict([pageProps |-> PyDict([builds |-> PyList(<<
        PyDict([character |-> PyStr(<<"F", "o", "o">>),
                class |-> PyStr(<<"W", "i", "t", "c", "h">>),
                level |-> PyStr(<<"9", "0">>)])>>)])])])

InitStrategy1 ==
    /\ InitBase
    /\ op = "strategy1"
    /\ pc = "call"
    /\ pin \in NextDatas \cup {FooPage}

CallStrategy1 ==
    /\ op = "strategy1" /\ pc = "call"
    /\ pout' = Strategy1(pin)
    /\ pc' = "done"
    /\ PureFrame

SpecStrategy1 == InitStrategy1 /\ [][CallStrategy1]_vars

MaxRows == 2        \* most rows of a document

\* texts of the cells of a mod table, by column
NameCells ==
    {<<>>, <<"N", "a", "m", "e">>, <<" ", "m", "o", "d", " ">>,
     <<"(", "2", "-", "1", ")", "L">>, <<"+", "(", "1", "-", "2", ")">>}
TierCells == {<<" ", "T", "2">>}
IlvlCells == {<<"6", "8", "+">>, <<"0">>, <<"x">>}
TagCells == {<<>>, <<"r", "i", "n", "g", ",", "x">>}

\* the <td> texts of a row: none, two, three or four cells
RowCells ==
    {<<>>, <<<<"L">>, <<"T", "1">>>>}
      \cup {<<n, t, i>> : n \in NameCells, t \in TierCells, i \in IlvlCells}
      \cup {<<n, t, i, g>> : n \in NameCells, t \in TierCells, i \in IlvlCells, g \in TagCells}

\* the <td> texts of a row that has a <th> cell: none, or three
HeaderRowCells ==
    {<<>>, <<<<"M", "o", "d">>, <<"T", "i", "e", "r">>, <<"L", "v">>>>,
     <<<<"L">>, <<"T", "1">>, <<"6", "8">>>>}

\* a row without a <th> cell, or with one
Rows ==
    [th : {<<>>}, td : RowCells] \cup [th : {<<<<"N", "a", "m", "e">>>>}, td : HeaderRowCells]

\* the rows in one table, or each row in a table of its own
Tables(rows, split) == IF split THEN [i \in 1..Len(rows) |-> <<rows[i]>>] ELSE <<rows>>

InitModTable ==
    /\ InitBase
    /\ op = "parse_mod_table"
    /\ pc = "call"
    /\ \E n \in 0..MaxRows : \E rows \in [1..n -> Rows] :
         \E split \in BOOLEAN, kind \in {Prefix, Suffix} :
           pin = [t |-> "soup", tables |-> Tables(rows, split), mod_type |-> kind]

CallModTable ==
    /\ op = "parse_mod_table" /\ pc = "call"
    /\ pout' = PyList(ParseModTable(pin.tables, pin.mod_type))
    /\ pc' = "done"
    /\ PureFrame

SpecModTable == InitModTable /\ [][CallModTable]_vars

(***************************************************************************)
(* Properties of scrape_builds                                             *)
(***************************************************************************)
\* the calls that belong to strategy 3: page.on and page.wait_for_timeout
Strategy3Untouched == calls["on"] = 0 /\ calls["wait_for_timeout"] = 0 /\ ~listening

\* the calls that belong to strategy 2: query_selector_all and element.evaluate
Strategy2Untouched == calls["query_selector_all"] = 0 /\ calls["element_evaluate"] = 0

\* C1: in scrape_builds the strategies run in the order 1, 2, 3 and the run
\* stops at the first that yields a record: once strategy 1 produced a record
\* neither the DOM query nor the listener and the wait are ever executed, once
\* strategy 2 produced a record strategy 3 is never executed, and a strategy
\* is only reached after the ones before it produced nothing.
C1_StrategiesInOrder ==
    op = "builds" =>
      /\ produced[1] > 0 => Strategy2Untouched /\ Strategy3Untouched
      /\ produced[2] > 0 => Strategy3Untouched
      /\ ~Strategy2Untouched => produced[1] = 0
      /\ ~Strategy3Untouched => produced[1] = 0 /\ produced[2] = 0
      /\ produced[3] >= 0 => produced[2] = 0
      /\ produced[2] >= 0 => produced[1] = 0

\* strategy 1 found a record and the invocation returned what it found
C1_Witness ==
    /\ op = "builds" /\ pc = "done" /\ outcome = "returned"
    /\ produced[1] > 0
    /\ result = PyList(builds)

\* C2: once an invocation of scrape_builds that launched a browser has
\* returned or raised, the browser session is no longer open, whichever path
\* the invocation took.
C2_BuildsBrowserReleased ==
    op = "builds" /\ pc = "done" => browser # "open"

\* the navigation failed after the launch: browser.close() was never called
\* and the session went down with the scope
C2_Witness ==
    /\ op = "builds" /\ pc = "done" /\ outcome = "raised"
    /\ failedAt = "goto"
    /\ calls["close"] = 0
    /\ browser = "torn_down"

\* the places where an exception leaves scrape_builds before strategy 2
BeforeStrategy2 == {"enter", "launch", "new_context", "new_page", "goto", "evaluate", "strategy1"}

\* C3: in scrape_builds an exception of the navigation or of a strategy ends
\* the invocation: it is raised to the caller, nothing is returned and no
\* later strategy is started; a later strategy is started only when the
\* earlier ones completed and produced zero records.
C3_OnlyEmptinessFallsBack ==
    op = "builds" =>
      /\ failedAt # "none" => raising /\ pc \in {"exit", "done"}
      /\ failedAt \in BeforeStrategy2 => Strategy2Untouched /\ Strategy3Untouched
      /\ failedAt = "query_selector_all" => Strategy3Untouched
      /\ calls["query_selector_all"] > 0 => produced[1] = 0 /\ failedAt \notin BeforeStrategy2
      /\ calls["on"] > 0 => produced[1] = 0 /\ produced[2] = 0
      /\ pc = "done" /\ failedAt # "none" => outcome = "raised" /\ result = NoResult

\* strategy 1 raised: the invocation raised and the DOM was never queried
C3_Witness ==
    /\ op = "builds" /\ pc = "done"
    /\ failedAt = "strategy1"
    /\ outcome = "raised"
    /\ calls["query_selector_all"] = 0

\* C4: when the three strategies of scrape_builds each produced zero records
\* and no exception occurred, the invocation returns the empty list and does
\* not raise.
C4_EmptyIsNotAnError ==
    /\ op = "builds" /\ pc = "done"
    /\ failedAt = "none"
    /\ produced = [s \in 1..3 |-> 0]
    => outcome = "returned" /\ result = PyList(<<>>)

\* the three strategies ran, the listener saw a response, nothing was found
C4_Witness ==
    /\ op = "builds" /\ pc = "done"
    /\ produced = [s \in 1..3 |-> 0]
    /\ arrived > 0
    /\ outcome = "returned"

(***************************************************************************)
(* Properties of every scrape invocation                                   *)
(***************************************************************************)
\* C5: an invocation of scrape_builds, scrape_market_data or scrape_all_mods
\* ends in one of two ways: it returns its collection of records, or it
\* raises; after a failure nothing that was collected reaches the caller.
C5_ReturnsOrRaises ==
    op \in {"builds", "market", "mods"} /\ pc = "done" =>
      /\ outcome \in {"returned", "raised"}
      /\ outcome = "raised" <=> raising
      /\ outcome = "raised" => result = NoResult
      /\ outcome = "returned" => result.t \in {"list", "dict"}
      /\ failedAt # "none" => outcome = "raised"

\* the suffix page failed after prefix mods had been parsed: the caller gets
\* the exception and no mods
C5_Witness ==
    /\ op = "mods" /\ pc = "done"
    /\ failedAt \in {"goto_suffix", "wait_for_selector_suffix", "content_suffix"}
    /\ all_mods.prefix # <<>>
    /\ outcome = "raised" /\ result = NoResult

(***************************************************************************)
(* Properties of scrape_market_data                                        *)
(***************************************************************************)
\* the places where an exception leaves scrape_market_data outside its try
OutsideTry == {"enter", "launch", "new_page"}

\* C6: once an invocation of scrape_market_data that launched a browser has
\* ended, the browser session is no longer open, on every path; when the
\* failure was inside the try statement browser.close() was called.
C6_MarketBrowserReleased ==
    op = "market" /\ pc = "done" =>
      /\ browser # "open"
      /\ failedAt \notin OutsideTry \cup {"none"} => calls["close"] >= 1

\* the page could not be created: no close was called and the session went
\* down with the scope
C6_Witness ==
    /\ op = "market" /\ pc = "done" /\ outcome = "raised"
    /\ failedAt = "new_page"
    /\ browser = "torn_down"

\* C7: scrape_market_data takes every response status other than 200 for
\* fatal: the invocation raises and returns nothing, and the page body is
\* never read nor parsed.
C7_NonOkStatusIsFatal ==
    op = "market" /\ status \notin {-1, 200} =>
      /\ calls["content"] = 0 /\ calls["evaluate"] = 0
      /\ content = None /\ data = None
      /\ pc \in {"except_close", "exit", "done"}
      /\ pc = "done" => outcome = "raised" /\ result = NoResult

\* a response with status 500 ended the invocation with an exception
C7_Witness ==
    /\ op = "market" /\ pc = "done"
    /\ status = 500
    /\ failedAt = "status"
    /\ outcome = "raised"

\* the array under `lines`, or the empty array
LinesOrEmpty(d) ==
    IF d.t = "dict" /\ "lines" \in DOMAIN d.v THEN d.v["lines"] ELSE PyList(<<>>)

\* C8: for a response with status 200 whose body parsed as JSON (or gave no
\* JSON at all), scrape_market_data returns the array under `lines`, or the
\* empty array when there is no such key, and does not raise.
C8_ReturnsLinesOrEmpty ==
    /\ op = "market" /\ pc = "done"
    /\ status = 200
    /\ failedAt \notin {"content", "evaluate", "close"}
    => outcome = "returned" /\ result = LinesOrEmpty(data)

(***************************************************************************)
(* Properties of the pure functions                                        *)
(***************************************************************************)
NumericFields == {"level", "dps", "life", "energyShield"}

\* C9: each of level, dps, life and energyShield of a normalized build is a
\* non-negative integer or absent.
C9_NumericFieldsNonNegative ==
    op = "_normalize_build" /\ pc = "done" /\ pout.t = "dict" =>
      \A k \in NumericFields :
        pout.v[k] = None \/ (pout.v[k].t = "int" /\ pout.v[k].v >= 0)

\* a text without its sign
Unsigned(s) == IF s # <<>> /\ s[1] \in {"-", "+"} THEN Tail(s) ELSE s

\* digits with at most one point among them, and one digit at least
IsDecimalBody(s) ==
    /\ \A i \in 1..Len(s) : s[i] \in Digits \cup {"."}
    /\ \E i \in 1..Len(s) : s[i] \in Digits
    /\ Cardinality({i \in 1..Len(s) : s[i] = "."}) <= 1

\* a decimal number, with or without a sign
IsDecimal(s) == IsDecimalBody(Unsigned(s))

HasDigit(s) == \E i \in 1..Len(s) : s[i] \in Digits

\* _parse_int returns an integer or absent; absent for None and for infinity
\* and NaN
ParseIntBasics ==
    /\ pout = None \/ pout.t = "int"
    /\ pin = None => pout = None
    /\ pin.t = "float" /\ pin.k # "fin" => pout = None
    /\ pin.t \in {"list", "dict"} => pout = None

IntegerDigits(u) == SubSeq(u, 1, Cardinality({i \in 1..Len(u) : \A j \in 1..i : u[j] # "."}))

\* a decimal text cut at its point, with its sign
Truncated(t) ==
    IF t # <<>> /\ t[1] = "-" THEN -DigitsToNat(IntegerDigits(Unsigned(t)))
    ELSE DigitsToNat(IntegerDigits(Unsigned(t)))

\* C11: for a string, _parse_int removes every `,`, writes 000 for every `k`
\* and `K`, reads the text as a decimal number and cuts it at the point:
\* "12,345" gives 12345, "5k" gives 5000 and "1.2k", read as 1.2000, gives 1.
C11_LiteralSubstitution ==
    op = "_parse_int" /\ pc = "done" /\ pin.t = "str" =>
      /\ IsDecimal(StripSeparators(pin.v)) => pout = PyInt(Truncated(StripSeparators(pin.v)))
      /\ pin.v = <<"1", "2", ",", "3", "4", "5">> => pout = PyInt(12345)
      /\ pin.v = <<"5", "k">> => pout = PyInt(5000)
      /\ pin.v = <<"1", ".", "2", "k">> => pout = PyInt(1)
      /\ pin.v = <<"-", "1", ".", "9", "K">> => pout = PyInt(-1)

\* "1.2k" was parsed and gave 1
C11_Witness ==
    /\ op = "_parse_int" /\ pc = "done"
    /\ pin = PyStr(<<"1", ".", "2", "k">>)
    /\ pout = PyInt(1)

\* the mappings whose tag occurs in the lower-cased text
Occurring(text) ==
    {i \in 1..Len(TagMappings) : HasSubstring(Lower(text), TagMappings[i].tag)}

\* the classes of the mappings whose tag occurs in the text
MappedClasses(text) == UNION {TagMappings[i].classes : i \in Occurring(text)}

\* C14: parse_tags returns, each once, the classes mapped from the known tags
\* that occur in the lower-cased text; it returns universal alone exactly when
\* no known tag occurs, and never universal beside another class.
\* "ring, jewellery" holds Ring and Amulet and "" gives universal alone.
C14_ClassifyTags ==
    op = "parse_tags" /\ pc = "done" =>
      /\ \A c \in BagToSet(pout.v) : CopiesIn(c, pout.v) = 1
      /\ Occurring(pin.v) # {} => BagToSet(pout.v) = MappedClasses(pin.v)
      /\ BagToSet(pout.v) = {"universal"} <=> Occurring(pin.v) = {}
      /\ "universal" \in BagToSet(pout.v) => BagToSet(pout.v) = {"universal"}
      /\ pin.v = <<>> => BagToSet(pout.v) = {"universal"}
      /\ pin.v = <<"r", "i", "n", "g", ",", " ", "j", "e", "w", "e", "l", "l", "e", "r", "y">>
           => {"Ring", "Amulet"} \subseteq BagToSet(pout.v)

\* "ring, jewellery" was classified: Ring is mapped from two tags and is
\* returned once
C14_Witness ==
    /\ op = "parse_tags" /\ pc = "done"
    /\ pin.v = <<"r", "i", "n", "g", ",", " ", "j", "e", "w", "e", "l", "l", "e", "r", "y">>
    /\ pout.v = SetToBag({"Ring", "Amulet", "Jewel"})

(***************************************************************************)
(* Properties of parse_mod_table                                           *)
(***************************************************************************)
\* C12: in every record parse_mod_table returns, ilvl is an integer of at
\* least 1 and item_classes is not empty.
C12_IlvlAndClasses ==
    op = "parse_mod_table" /\ pc = "done" =>
      \A i \in 1..Len(pout.v) :
        /\ pout.v[i].v.ilvl.t = "int" /\ pout.v[i].v.ilvl.v >= 1
        /\ pout.v[i].v.item_classes.v # {}

\* C13: in every record parse_mod_table returns, each entry of stat_ranges
\* has min <= max.
C13_RangesOrdered ==
    op = "parse_mod_table" /\ pc = "done" =>
      \A i \in 1..Len(pout.v) :
        \A j \in 1..Len(pout.v[i].v.stat_ranges) :
          pout.v[i].v.stat_ranges[j].min <= pout.v[i].v.stat_ranges[j].max

\* the place of the first row of a table with a <th> cell, or 0
HeaderPlace(rows) ==
    IF \A i \in 1..Len(rows) : rows[i].th = <<>> THEN 0
    ELSE CHOOSE i \in 1..Len(rows) : rows[i].th # <<>> /\ \A j \in 1..(i - 1) : rows[j].th = <<>>

\* a table without the row at place h
WithoutRow(rows, h) == SubSeq(rows, 1, h - 1) \o SubSeq(rows, h + 1, Len(rows))

\* a table without its header row
WithoutHeader(rows) == IF HeaderPlace(rows) = 0 THEN rows ELSE WithoutRow(rows, HeaderPlace(rows))

\* C15: the header row of each table, the first row with a header cell,
\* gives no record whatever data cells it holds: the records are those of
\* the document without its header rows.
C15_HeaderRowSkipped ==
    op = "parse_mod_table" /\ pc = "done" =>
      pout = PyList(ParseModTable([i \in 1..Len(pin.tables) |-> WithoutHeader(pin.tables[i])],
                                  pin.mod_type))

\* the rows of a document, in document order
RECURSIVE DocRows(_)
DocRows(tables) == IF tables = <<>> THEN <<>> ELSE Head(tables) \o DocRows(Tail(tables))

\* a row with three data cells at least whose name is not empty and reads
\* neither name nor mod
Eligible(row) ==
    /\ Len(row.td) >= 3
    /\ Strip(row.td[1]) # <<>>
    /\ Lower(Strip(row.td[1])) \notin {<<"n", "a", "m", "e">>, <<"m", "o", "d">>}

\* the tag text of a row: its fourth cell, or the empty text
TagText(row) == IF Len(row.td) >= 4 THEN Strip(row.td[4]) ELSE <<>>

\* the record rec is the one of the row
RecordOfRow(rec, row, kind) ==
    /\ rec.v.name = PyStr(Strip(row.td[1]))
    /\ rec.v.tier = PyStr(Strip(row.td[2]))
    /\ rec.v.ilvl = PyInt(ParseIlvl(Strip(row.td[3])))
    /\ rec.v.tags = PyList(IF TagText(row) = <<>> THEN <<>> ELSE SplitCommas(TagText(row)))
    /\ rec.v.type = PyStr(kind)

\* the records are those of the rows, one for one and in order
RecordsOfRows(recs, rows, kind) ==
    /\ Len(recs) = Len(rows)
    /\ \A i \in 1..Len(rows) : RecordOfRow(recs[i], rows[i], kind)

\* C16: parse_mod_table gives a record for a row exactly when the row has
\* three data cells at least and a trimmed name cell that is not empty and
\* reads neither name nor mod in any case; the records come in document
\* order, one for each such row, with name, tier, item level and tags from
\* the columns 0 to 3 (no tags without a fourth cell) and the kind asked for.
C16_RecordPerEligibleRow ==
    op = "parse_mod_table" /\ pc = "done" =>
      RecordsOfRows(pout.v, SelectSeq(DocRows(pin.tables), Eligible), pin.mod_type)

\* a document of two rows, the first skipped for its name and the second
\* giving the one record
C16_Witness ==
    /\ op = "parse_mod_table" /\ pc = "done"
    /\ Len(DocRows(pin.tables)) = 2
    /\ Len(DocRows(pin.tables)[1].td) = 4
    /\ Strip(DocRows(pin.tables)[1].td[1]) = <<"m", "o", "d">>
    /\ Len(DocRows(pin.tables)[2].td) = 3
    /\ Len(pout.v) = 1
    /\ pout.v[1].v.tags = PyList(<<>>)

(***************************************************************************)
(* Properties of _normalize_build                                          *)
(***************************************************************************)
\* the value of the first of the keys that the record holds with a value that
\* is not null, or null
RECURSIVE FirstNonNull(_, _)
FirstNonNull(raw, keys) ==
    IF keys = <<>> THEN None
    ELSE IF Head(keys) \in DOMAIN raw.v /\ raw.v[Head(keys)] # None THEN raw.v[Head(keys)]
    ELSE FirstNonNull(raw, Tail(keys))

\* a value, or the default in the place of null
OrDefault(x, default) == IF x = None THEN default ELSE x

\* C17: each field of a normalized build holds the value of the first of its
\* candidate keys that the raw record holds with a value that is not null,
\* 0 and the empty string included, and its default (Unknown, absent, the
\* empty sequence) only when there is no such key.
C17_FirstPresentValue ==
    op = "_normalize_build" /\ pc = "done" /\ pin.t = "dict" =>
      /\ pout.v.name = OrDefault(FirstNonNull(pin, <<"name", "character">>), Unknown)
      /\ pout.v.class = OrDefault(FirstNonNull(pin, <<"class", "className">>), Unknown)
      /\ pout.v.mainSkill
           = OrDefault(FirstNonNull(pin, <<"skill", "mainSkill", "main_skill">>), Unknown)
      /\ pout.v.dps = ParseInt(FirstNonNull(pin, <<"dps", "totalDps">>))
      /\ pout.v.life = ParseInt(FirstNonNull(pin, <<"life", "maxLife">>))
      /\ pout.v.energyShield
           = ParseInt(FirstNonNull(pin, <<"energy_shield", "energyShield", "es">>))
      /\ pout.v.items = OrDefault(FirstNonNull(pin, <<"items">>), PyList(<<>>))

(***************************************************************************)
(* Properties of the strategies of scrape_builds                           *)
(***************************************************************************)
\* the first of builds, snapshot and data among the keys of the page properties
FirstKey(pp) ==
    CHOOSE k \in {"builds", "snapshot", "data", ""} :
      \/ k = "builds" /\ "builds" \in DOMAIN pp.v
      \/ k = "snapshot" /\ {"builds"} \cap DOMAIN pp.v = {} /\ "snapshot" \in DOMAIN pp.v
      \/ k = "data" /\ {"builds", "snapshot"} \cap DOMAIN pp.v = {} /\ "data" \in DOMAIN pp.v
      \/ k = "" /\ {"builds", "snapshot", "data"} \cap DOMAIN pp.v = {}

\* an array of raw records
IsRecordArray(x) == x.t = "list" /\ \A i \in 1..Len(x.v) : x.v[i].t = "dict"

\* the page properties of an embedded blob that has them
HasPageProps(nd) ==
    /\ nd.t = "dict" /\ "props" \in DOMAIN nd.v
    /\ nd.v.props.t = "dict" /\ "pageProps" \in DOMAIN nd.v.props.v
    /\ nd.v.props.v.pageProps.t = "dict"

\* the records are the normalized elements of the array, one for one
NormalizedFrom(recs, array) ==
    /\ recs.t = "list"
    /\ Len(recs.v) = Len(array.v)
    /\ \A i \in 1..Len(array.v) : recs.v[i] = NormalizeBuild(array.v[i])

\* what strategy 1 gives for the page properties pp
Strategy1Uses(recs, pp) ==
    FirstKey(pp) # "" /\ IsRecordArray(pp.v[FirstKey(pp)])
      => NormalizedFrom(recs, pp.v[FirstKey(pp)])

\* C18: strategy 1 looks for builds, then snapshot, then data among the page
\* properties of the embedded blob, and the array of records under the first
\* of them gives one normalized record for each element, in order.
C18_Strategy1UsesFirstKey ==
    op = "strategy1" /\ pc = "done" /\ HasPageProps(pin) =>
      Strategy1Uses(pout, pin.v.props.v.pageProps)

\* the page of the build Foo gave one record: Foo, Witch, level 90
C18_Witness ==
    /\ op = "strategy1" /\ pc = "done"
    /\ pin = FooPage
    /\ Len(pout.v) = 1
    /\ pout.v[1].v.name = PyStr(<<"F", "o", "o">>)
    /\ pout.v[1].v.class = PyStr(<<"W", "i", "t", "c", "h">>)
    /\ pout.v[1].v.level = PyInt(90)

\* a name or a class was read from the element
HasNameOrClass(e) ==
    /\ e.t = "dict"
    /\ \/ e.v.name.t = "str" /\ e.v.name.v # <<>>
       \/ e.v.class.t = "str" /\ e.v.class.v # <<>>

\* the places among the first ScanLimit of the page whose element has a name
\* or a class
KeptPlaces(page) ==
    {i \in 1..page.n : i <= ScanLimit /\ HasNameOrClass(ElemOf(page.kind, i))}

\* C19: strategy 2 reads the first 100 matched elements and no more, keeps an
\* element only when a name or a class was read from it, so that it gives at
\* most 100 records and none without both name and class; an element whose
\* read fails is passed over and the scan goes on to the last element.
C19_ScanCappedAndFiltered ==
    op = "builds" /\ pin.t = "page" =>
      /\ idx <= ScanLimit /\ calls["element_evaluate"] <= ScanLimit
      /\ produced[1] = 0 /\ produced[3] < 0 =>
           /\ Len(builds) <= idx
           /\ \A i \in 1..Len(builds) :
                builds[i].v.name # Unknown \/ builds[i].v.class # Unknown
      /\ produced[2] >= 0 =>
           /\ produced[2] <= ScanLimit
           /\ idx = IF matched < ScanLimit THEN matched ELSE ScanLimit
           /\ calls["element_evaluate"] = idx
           /\ produced[2] = Cardinality(KeptPlaces(pin))

\* a page of more than 100 elements, every other one failing: 50 records
\* were returned
C19_Witness ==
    /\ op = "builds" /\ pc = "done" /\ outcome = "returned"
    /\ pin.t = "page" /\ pin.n > ScanLimit /\ pin.kind = "failing_odd"
    /\ "element" \in swallowed
    /\ Len(result.v) = 50

\* a sequence without its element at place i
RemoveAt(seq, i) == SubSeq(seq, 1, i - 1) \o SubSeq(seq, i + 1, Len(seq))

\* response.json() of the suspended handler at place i completes in this step
JsonCompletes(i) == pending' = RemoveAt(pending, i) /\ arrived' = arrived

\* the step leaves the invocation where it is: no payload added, the wait not
\* ended, no exception raised, the listener attached
WindowUntouched ==
    /\ api_data' = api_data
    /\ pc' = pc /\ calls' = calls
    /\ failedAt' = failedAt /\ raising' = raising
    /\ listening' = listening /\ builds' = builds

\* the listener still takes responses and the wait still ends by itself
WindowOpen ==
    /\ listening
    /\ arrived < MaxResponses => ENABLED B_HandleResponse
    /\ pending # <<>> => ENABLED B_ResponseJson
    /\ ENABLED B_WaitForTimeout

\* C20: in strategy 3 a matching response whose body is no JSON is dropped:
\* it adds nothing to the captured payloads, neither ends the wait nor makes
\* the invocation raise, and the responses before and after it are captured
\* all the same, in whatever order the handlers run.
C20_MalformedBodyDiscarded ==
    /\ [][\A i \in 1..Len(pending) :
            /\ IsExc(pending[i]) /\ JsonCompletes(i) => WindowUntouched
            /\ ~IsExc(pending[i]) /\ JsonCompletes(i) => api_data' = Append(api_data, pending[i])]_vars
    /\ [](op = "builds" /\ pc = "wait_for_timeout" /\ "json" \in swallowed => WindowOpen)

\* a body that was no JSON was dropped, another response was captured after
\* it, and the invocation returned the records of that one
C20_Witness ==
    /\ op = "builds" /\ pc = "done" /\ outcome = "returned"
    /\ "json" \in swallowed
    /\ produced[3] > 0
    /\ Len(result.v) = produced[3]

(***************************************************************************)
(* The element wait and the navigation of scrape_builds                    *)
(***************************************************************************)
\* no strategy has been attempted
NoStrategyAttempted ==
    /\ calls["evaluate"] = 0 /\ calls["query_selector_all"] = 0
    /\ calls["element_evaluate"] = 0
    /\ calls["on"] = 0 /\ calls["wait_for_timeout"] = 0
    /\ produced = [s \in 1..3 |-> -1]
    /\ builds = <<>> /\ ~listening

\* C25: in scrape_builds a failed element wait after a successful navigation
\* is not fatal: the invocation does not raise because of it and goes on to
\* the read of strategy 1; a failed navigation ends the invocation with an
\* exception before any strategy is attempted.
C25_WaitNotFatalGotoFatal ==
    op = "builds" =>
      /\ failedAt # "wait_for_selector"
      /\ "wait_for_selector" \in swallowed =>
           /\ calls["goto"] = 1 /\ calls["wait_for_selector"] = 1
           /\ failedAt # "goto"
           /\ calls["evaluate"] = 1
           /\ produced[1] < 0 => pc = "evaluate" \/ failedAt \in {"evaluate", "strategy1"}
      /\ failedAt = "goto" =>
           /\ raising \/ outcome = "raised"
           /\ pc \in {"exit", "done"}
           /\ calls["wait_for_selector"] = 0
           /\ NoStrategyAttempted
           /\ pc = "done" => outcome = "raised"

\* the element wait failed and the invocation returned the records that
\* strategy 3 found after strategies 1 and 2 gave none
C25_Witness ==
    /\ op = "builds" /\ pc = "done" /\ outcome = "returned"
    /\ "wait_for_selector" \in swallowed
    /\ produced[1] = 0 /\ produced[2] = 0 /\ produced[3] > 0
    /\ Len(result.v) = produced[3]

\* the navigation failed and the caller got the exception
C25_WitnessGoto ==
    /\ op = "builds" /\ pc = "done" /\ outcome = "raised"
    /\ failedAt = "goto" /\ NoStrategyAttempted

(***************************************************************************)
(* The calls of browser.close() in scrape_market_data                      *)
(***************************************************************************)
\* the invocation got a browser from p.chromium.launch
Launched == browser # "none"

\* C24: in every execution of scrape_market_data that launched a browser,
\* browser.close() is called exactly once, also when the JSON is no object
\* and when the close call itself raises.
C24_ClosedExactlyOnce ==
    op = "market" /\ pc = "done" /\ Launched => calls["close"] = 1

\* the call counts of browser.close() by the place of the failure, as the
\* code gives them
C24_CloseCounts ==
    op = "market" /\ pc = "done" /\ Launched =>
      calls["close"] = CASE failedAt = "new_page" -> 0
                         [] failedAt \in {"lines", "close"} -> 2
                         [] OTHER -> 1

\* the <pre> text was a JSON array: close was called, reading `lines`
\* raised, and the handler called close once more
C24_TwiceOnArray ==
    /\ op = "market" /\ pc = "done" /\ outcome = "raised"
    /\ failedAt = "lines" /\ data.t = "list"
    /\ calls["close"] = 2

(***************************************************************************)
(* ModDatabase.store_mods and ModDatabase.store_builds                     *)
(* backend/database/mod_db.py, backend/database/models.py                  *)
(* A table is the sequence of its rows in insertion order; `db` holds what *)
(* is committed, session.view what the session's transaction sees, and     *)
(* session.added the objects handed to session.add and not yet flushed.    *)
(***************************************************************************)
MaxBatch == 2       \* longest list of records handed to a store call

Leagues == {"Standard", "Affliction"}

Row(cols) == [t |-> "row", v |-> cols]

\* mod_db.py lines 67-76 and 82-91: Mod(name=mod_data['name'], type=..., ...)
ModRow(mod_data, type) ==
    IF mod_data.t # "dict" THEN Exc("TypeError")
    ELSE IF "name" \notin DOMAIN mod_data.v THEN Exc("KeyError")
    ELSE Row([table |-> "mods",
              name |-> mod_data.v["name"],
              type |-> type,
              tier |-> Get(mod_data, "tier"),
              ilvl |-> GetOr(mod_data, "ilvl", PyInt(1)),
              tags |-> GetOr(mod_data, "tags", PyList(<<>>)),
              item_classes |-> GetOr(mod_data, "item_classes", PyList(<<>>)),
              stat_ranges |-> GetOr(mod_data, "stat_ranges", PyList(<<>>)),
              source |-> GetOr(mod_data, "source", PyStr(<<"p", "o", "e", "d", "b">>))])

\* mod_db.py lines 214-225: Build(league=league, name=build_data.get('name'), ...)
BuildRow(build_data, league) ==
    IF build_data.t # "dict" THEN Exc("AttributeError")
    ELSE Row([table |-> "builds",
              league |-> league,
              name |-> Get(build_data, "name"),
              character_class |-> Get(build_data, "class"),
              level |-> Get(build_data, "level"),
              main_skill |-> Get(build_data, "mainSkill"),
              dps |-> Get(build_data, "dps"),
              life |-> Get(build_data, "life"),
              energy_shield |-> Get(build_data, "energyShield"),
              items |-> GetOr(build_data, "items", PyList(<<>>)),
              url |-> Get(build_data, "url")])

\* models.py lines 22 and 25 (nullable=False) and line 86 (a JSON column):
\* the INSERT of the row fails when the session is flushed
FlushFails(row) ==
    IF row.v.table = "mods"
    THEN row.v.name = None \/ row.v.ilvl = None
    ELSE row.v.items.t = "set"

\* a delete that removes the builds of every league
DeleteEveryBuild(rows, league) == <<>>

\* mod_db.py line 211: session.query(Build).filter(Build.league == league).delete()
DeleteLeagueBuilds(rows, league) == SelectSeq(rows, LAMBDA r : r.v.league # league)

\* the list a store call walks: mods_data.get('prefix', []) then
\* mods_data.get('suffix', []) (lines 66 and 81), or builds (line 214)
Batch ==
    IF op = "store_mods"
    THEN GetOr(pin, "prefix", PyList(<<>>)).v \o GetOr(pin, "suffix", PyList(<<>>)).v
    ELSE pin.builds

\* the row the loop makes of the record at place i
BatchRow(i) ==
    IF op = "store_mods"
    THEN ModRow(Batch[i], IF i <= Len(GetOr(pin, "prefix", PyList(<<>>)).v)
                          THEN "prefix" ELSE "suffix")
    ELSE BuildRow(Batch[i], pin.league)

\* the mod records of the inputs
ModA == PyDict([name |-> PyStr(<<"a">>), tier |-> PyStr(<<"T", "1">>), ilvl |-> PyInt(5)])
ModB == PyDict([name |-> PyStr(<<"b">>)])
ModNoName == PyDict([tier |-> PyStr(<<"T", "1">>)])
ModNullIlvl == PyDict([name |-> PyStr(<<"c">>), ilvl |-> None])
ModPool == {ModA, ModB, ModNoName, ModNullIlvl}

\* the build records of the inputs
BuildX == PyDict([name |-> PyStr(<<"X">>), class |-> PyStr(<<"W">>), level |-> PyInt(90)])
BuildY == EmptyDict
BuildStr == PyStr(<<"x">>)
BuildBadItems == PyDict([name |-> PyStr(<<"Z">>), items |-> [t |-> "set", v |-> {}]])
BuildPool == {BuildX, BuildY, BuildStr, BuildBadItems}

\* the dicts handed to store_mods
ModsDatas(n) ==
    {PyDict(f) : f \in UNION {[K -> {PyList(l) : l \in SeqsUpTo(ModPool, n)}] :
                              K \in SUBSET {"prefix", "suffix"}}}

\* the arguments handed to store_builds
BuildsArgs(n) == [builds : SeqsUpTo(BuildPool, n), league : Leagues]

\* the contents the database file can have when a call begins
OldMods == <<ModRow(ModB, "prefix"), ModRow(ModA, "suffix")>>
OldBuilds == <<BuildRow(BuildX, "Standard"), BuildRow(BuildY, "Affliction"),
               BuildRow(BuildY, "Standard")>>
StoredTables ==
    {EmptyTables, [mods |-> OldMods, builds |-> <<>>], [mods |-> OldMods, builds |-> OldBuilds]}

InitStore ==
    /\ InitScrapers
    /\ db \in StoredTables
    /\ db0 = db
    /\ session = NoSession
    /\ total_stored = 0
    /\ inv = <<>>
    /\ pc = "call"
    /\ \/ op = "store_mods" /\ pin \in ModsDatas(MaxBatch)
       \/ op = "store_builds" /\ pin \in BuildsArgs(MaxBatch)

\* what the store calls leave alone
S_Frame ==
    UNCHANGED <<op, pw, browser, calls, bvars, swallowed, mvars, dvars, pin, result, inv>>

\* lines 98-100, 233-235: the except clause is entered
S_Raise(at) ==
    /\ failedAt' = at
    /\ pc' = "rollback"

\* lines 57-58, 206-207: session = self.get_session(); total_stored = 0
S_GetSession ==
    /\ op \in {"store_mods", "store_builds"} /\ pc = "call"
    /\ session' = [t |-> "open", view |-> db, added |-> <<>>]
    /\ total_stored' = 0
    /\ db0' = db
    /\ pc' = "delete"
    /\ UNCHANGED <<db, failedAt, raising, outcome, pout>>
    /\ S_Frame

\* line 62: session.query(Mod).delete(); line 211: the delete of one league
S_Delete ==
    /\ op \in {"store_mods", "store_builds"} /\ pc = "delete"
    /\ \/ /\ session' = [session EXCEPT !.view =
                IF op = "store_mods"
                THEN [@ EXCEPT !.mods = <<>>]
                ELSE [@ EXCEPT !.builds = DeleteLeagueBuilds(@, pin.league)]]
          /\ pc' = IF op = "store_mods" THEN "commit_delete" ELSE "add"
          /\ UNCHANGED failedAt
       \/ /\ S_Raise("delete")
          /\ UNCHANGED session
    /\ UNCHANGED <<db, db0, total_stored, raising, outcome, pout>>
    /\ S_Frame

\* line 63 of store_mods: session.commit() right after the delete
S_CommitDelete ==
    /\ op = "store_mods" /\ pc = "commit_delete"
    /\ \/ /\ db' = session.view
          /\ pc' = "add"
          /\ UNCHANGED failedAt
       \/ /\ S_Raise("commit_delete")
          /\ UNCHANGED db
    /\ UNCHANGED <<session, db0, total_stored, raising, outcome, pout>>
    /\ S_Frame

\* lines 66-91, 214-227: one turn of the loop
S_Add ==
    /\ op \in {"store_mods", "store_builds"} /\ pc = "add"
    /\ total_stored < Len(Batch)
    /\ IF IsExc(BatchRow(total_stored + 1))
       THEN /\ S_Raise("add")
            /\ UNCHANGED <<session, total_stored>>
       ELSE /\ session' = [session EXCEPT !.added = Append(@, BatchRow(total_stored + 1))]
            /\ total_stored' = total_stored + 1
            /\ UNCHANGED <<pc, failedAt>>
    /\ UNCHANGED <<db, db0, raising, outcome, pout>>
    /\ S_Frame

\* the table `name` with the rows of `added` that belong to it at its end
WithAdded(view, added) ==
    [mods |-> view.mods \o SelectSeq(added, LAMBDA r : r.v.table = "mods"),
     builds |-> view.builds \o SelectSeq(added, LAMBDA r : r.v.table = "builds")]

\* lines 93, 228: session.commit() after the loop
S_Commit ==
    /\ op \in {"store_mods", "store_builds"} /\ pc = "add"
    /\ total_stored = Len(Batch)
    /\ IF \E i \in 1..Len(session.added) : FlushFails(session.added[i])
       THEN /\ S_Raise("commit")
            /\ UNCHANGED <<db, session>>
       ELSE /\ db' = WithAdded(session.view, session.added)
            /\ session' = [session EXCEPT !.view = WithAdded(session.view, session.added),
                                          !.added = <<>>]
            /\ pc' = "close"
            /\ UNCHANGED failedAt
    /\ UNCHANGED <<db0, total_stored, raising, outcome, pout>>
    /\ S_Frame

\* lines 98-100, 233-235: session.rollback(), log, raise
S_Rollback ==
    /\ op \in {"store_mods", "store_builds"} /\ pc = "rollback"
    /\ session' = [session EXCEPT !.view = db, !.added = <<>>]
    /\ raising' = TRUE
    /\ pc' = "close"
    /\ UNCHANGED <<db, db0, total_stored, failedAt, outcome, pout>>
    /\ S_Frame

\* lines 101-104, 236-240: finally session.close(), then return total_stored
S_Close ==
    /\ op \in {"store_mods", "store_builds"} /\ pc = "close"
    /\ session' = [t |-> "closed"]
    /\ outcome' = IF raising THEN "raised" ELSE "returned"
    /\ pout' = IF raising THEN NoResult ELSE PyInt(total_stored)
    /\ pc' = "done"
    /\ UNCHANGED <<db, db0, total_stored, failedAt, raising>>
    /\ S_Frame

StoreNext ==
    \/ S_GetSession
    \/ S_Delete
    \/ S_CommitDelete
    \/ S_Add
    \/ S_Commit
    \/ S_Rollback
    \/ S_Close

SpecStore == InitStore /\ [][StoreNext]_vars

(***************************************************************************)
(* Properties of store_mods and store_builds                               *)
(***************************************************************************)
\* the rows of one league, in table order
OfLeague(rows, league) == SelectSeq(rows, LAMBDA r : r.v.league = league)

\* the row holds the columns of the given build record
SameBuild(row, rec, league) ==
    /\ rec.t = "dict"
    /\ row.v.league = league
    /\ row.v.name = Get(rec, "name") /\ row.v.character_class = Get(rec, "class")
    /\ row.v.level = Get(rec, "level") /\ row.v.main_skill = Get(rec, "mainSkill")
    /\ row.v.dps = Get(rec, "dps") /\ row.v.life = Get(rec, "life")
    /\ row.v.energy_shield = Get(rec, "energyShield") /\ row.v.url = Get(rec, "url")
    /\ row.v.items = IF "items" \in DOMAIN rec.v THEN rec.v["items"] ELSE PyList(<<>>)

\* the row holds the columns of the given mod record, as a mod of the kind
SameMod(row, rec, kind) ==
    /\ rec.t = "dict" /\ "name" \in DOMAIN rec.v
    /\ row.v.name = rec.v["name"] /\ row.v.type = kind
    /\ row.v.tier = Get(rec, "tier")
    /\ row.v.ilvl = IF "ilvl" \in DOMAIN rec.v THEN rec.v["ilvl"] ELSE PyInt(1)

\* the list under a key of mods_data, empty without the key
Given(key) == IF key \in DOMAIN pin.v THEN pin.v[key].v ELSE <<>>

\* C22: after a successful store_builds(builds, league) the stored builds of
\* that league are exactly the given builds and the builds of every other
\* league are unchanged; after a successful store_mods(mods) the stored mods
\* are exactly the given prefix and suffix mods and the returned count is
\* the number of mods now stored.
C22_ReplaceAllByPartition ==
    pc = "done" /\ outcome = "returned" =>
      /\ op = "store_builds" =>
           /\ Len(OfLeague(db.builds, pin.league)) = Len(pin.builds)
           /\ \A i \in 1..Len(pin.builds) :
                SameBuild(OfLeague(db.builds, pin.league)[i], pin.builds[i], pin.league)
           /\ \A l \in Leagues \ {pin.league} :
                OfLeague(db.builds, l) = OfLeague(db0.builds, l)
           /\ db.mods = db0.mods
           /\ pout = PyInt(Len(pin.builds))
      /\ op = "store_mods" =>
           /\ Len(db.mods) = Len(Given("prefix")) + Len(Given("suffix"))
           /\ \A i \in 1..Len(Given("prefix")) :
                SameMod(db.mods[i], Given("prefix")[i], "prefix")
           /\ \A i \in 1..Len(Given("suffix")) :
                SameMod(db.mods[Len(Given("prefix")) + i], Given("suffix")[i], "suffix")
           /\ pout = PyInt(Len(db.mods))
           /\ db.builds = db0.builds

\* two builds replaced the two stored for Standard, and the build of
\* Affliction is still there
C22_Witness ==
    /\ op = "store_builds" /\ pc = "done" /\ outcome = "returned"
    /\ pin.league = "Standard" /\ pin.builds = <<BuildX, BuildX>>
    /\ db0.builds = OldBuilds
    /\ Len(db.builds) = 3
    /\ OfLeague(db.builds, "Affliction") = <<BuildRow(BuildY, "Affliction")>>

\* prefix and suffix mods replaced the stored ones
C22_WitnessMods ==
    /\ op = "store_mods" /\ pc = "done" /\ outcome = "returned"
    /\ db0.mods = OldMods
    /\ Given("prefix") = <<ModA>> /\ Given("suffix") = <<ModB, ModA>>
    /\ pout = PyInt(3)

\* the call raised while a record was being inserted
FailedInserting == pc = "done" /\ outcome = "raised" /\ failedAt \in {"add", "commit"}

\* C23: when store_mods or store_builds fails while inserting a record, the
\* database is left exactly as it was before the call.
C23_FailureLeavesDatabaseAsBefore ==
    op \in {"store_mods", "store_builds"} /\ FailedInserting => db = db0

\* what a failed insert leaves behind, as the code has it: the builds as
\* before, the mods table empty
C23_AsCoded ==
    FailedInserting =>
      /\ op = "store_builds" => db = db0
      /\ op = "store_mods" => db.mods = <<>> /\ db.builds = db0.builds

\* a mod record without a name: the stored mods are gone after the failure
C23_ModsLost ==
    /\ op = "store_mods" /\ FailedInserting /\ failedAt = "add"
    /\ Given("prefix") = <<ModA, ModNoName>>
    /\ db0.mods = OldMods /\ db.mods = <<>>

(***************************************************************************)
(* Concurrent invocations on the one PoeNinjaScraper of main.py line 50.   *)
(* inv.self holds the attributes of the object, inv.sessions the browsers  *)
(* launched so far, inv.of[i] the locals of invocation i.  Invocation i    *)
(* asks for league i, whose pages name their records by the league.        *)
(***************************************************************************)
MaxInvocations == 2   \* invocations running at the same time

Invocations == 1..MaxInvocations

\* poe_ninja.py lines 22-23: the attributes set by __init__
Self0 == [base_url |-> "https://poe.ninja", timeout |-> 30000]

\* the name the pages of league i give to their records
LeagueTag(i) == PyStr(<<<<"1", "2", "3", "4">>[i]>>)

\* what the pages of league i answer
RawOf(i) == PyDict([name |-> LeagueTag(i)])
NextDatasOf(i) ==
    {None, PyDict([props |-> PyDict([pageProps |-> PyDict([builds |-> PyList(<<RawOf(i)>>)])])])}
ElemAnswersOf(i) == {ElemData(LeagueTag(i), None, None), Exc("Error")}
ApiBodiesOf(i) == {PyList(<<RawOf(i)>>), Exc("JSONDecodeError")}
MarketDatasOf(i) == {PyDict([lines |-> PyList(<<RawOf(i)>>)]), PyList(<<RawOf(i)>>)}

\* the page's answers an invocation has received so far
NoAnswers == [nd |-> NoResult, elems |-> <<>>, bodies |-> <<>>, data |-> NoResult]

\* the locals of an invocation that has been called and not yet run
Locals0(o) ==
    [op |-> o, pc |-> "launch", browser |-> 0, open |-> FALSE,
     builds |-> <<>>, api_data |-> <<>>, listening |-> FALSE, arrived |-> 0,
     pending |-> <<>>, data |-> None, result |-> NoResult,
     fed |-> NoAnswers, together |-> FALSE]

InitPair ==
    /\ InitScrapers
    /\ db = EmptyTables /\ db0 = EmptyTables
    /\ session = NoSession /\ total_stored = 0
    /\ op = "pair" /\ pc = "run" /\ pin = None
    /\ \E ops \in [Invocations -> {"builds", "market"}] :
         inv = [self |-> Self0, sessions |-> 0,
                of |-> [i \in Invocations |-> Locals0(ops[i])]]

\* what the invocations leave alone
P_Frame ==
    UNCHANGED <<op, pc, pw, browser, calls, bvars, swallowed, mvars, dvars, failedAt,
                raising, pvars, cvars, db, session, total_stored, db0>>

\* invocation i goes on with the locals l
P_Set(i, l) == inv' = [inv EXCEPT !.of[i] = l]

\* the browser of the invocation is gone: its page delivers nothing more and
\* the handlers still suspended in response.json() end with an exception
P_Ended(l) == [l EXCEPT !.open = FALSE, !.pc = "done", !.listening = FALSE, !.pending = <<>>]

\* lines 157-159, 258-261: the exception leaves invocation i; the scope of
\* line 38 or 220 ends its browser
P_Raise(i) ==
    P_Set(i, [P_Ended(inv.of[i]) EXCEPT !.result = Exc("Exception")])

\* lines 42 and 221: p.chromium.launch gives a browser of its own
P_Launch(i) ==
    /\ inv.of[i].pc = "launch"
    /\ \/ inv' = [inv EXCEPT !.sessions = @ + 1,
                             !.of[i] = [@ EXCEPT !.pc = "goto", !.open = TRUE,
                                                 !.browser = inv.sessions + 1]]
       \/ P_Raise(i)
    /\ P_Frame

\* lines 43-52: context, page and page.goto with self.timeout; lines 222-232:
\* page, page.goto and the status test
P_Goto(i) ==
    /\ inv.of[i].pc = "goto"
    /\ \/ P_Set(i, [inv.of[i] EXCEPT !.pc = "evaluate"])
       \/ P_Raise(i)
    /\ P_Frame

\* lines 127-143: api_data = [], page.on("response", handle_response)
P_EnterStrategy3(l) == [l EXCEPT !.api_data = <<>>, !.listening = TRUE, !.pc = "wait"]

\* lines 67-94: strategy 1 on the page's __NEXT_DATA__
P_Strategy1(i, nd) ==
    IF IsExc(Strategy1(nd)) THEN P_Raise(i)
    ELSE P_Set(i, [inv.of[i] EXCEPT !.fed.nd = nd,
                                    !.builds = Strategy1(nd).v,
                                    !.pc = IF Strategy1(nd).v = <<>> THEN "query" ELSE "close"])

P_Evaluate(i) ==
    /\ inv.of[i].op = "builds" /\ inv.of[i].pc = "evaluate"
    /\ \E nd \in NextDatasOf(i) : P_Strategy1(i, nd)
    /\ P_Frame

\* lines 92-96: query_selector_all matches no element or one
P_Query(i) ==
    /\ inv.of[i].op = "builds" /\ inv.of[i].pc = "query"
    /\ \/ P_Set(i, P_EnterStrategy3(inv.of[i]))
       \/ P_Set(i, [inv.of[i] EXCEPT !.pc = "element"])
    /\ P_Frame

\* lines 96-127: the one turn of the loop and what follows it
P_AfterElement(l, e) ==
    IF ElementRecord(e).t = "dict"
    THEN [l EXCEPT !.fed.elems = Append(@, e), !.builds = Append(@, ElementRecord(e)),
                   !.pc = "close"]
    ELSE P_EnterStrategy3([l EXCEPT !.fed.elems = Append(@, e)])

P_Element(i) ==
    /\ inv.of[i].op = "builds" /\ inv.of[i].pc = "element"
    /\ \E e \in ElemAnswersOf(i) : P_Set(i, P_AfterElement(inv.of[i], e))
    /\ P_Frame

\* every invocation that has a handler registered
EveryListener(i) == {j \in Invocations : inv.of[j].listening}

\* line 140: handle_response is registered on the page of the invocation's
\* own browser, so a response of page i reaches the handler of i alone
Receivers(i) == {i}

\* lines 131-133: the page of invocation i gets a matching response
P_Response(i) ==
    /\ inv.of[i].listening /\ inv.of[i].open
    /\ inv.of[i].pc \in {"wait", "close"}
    /\ inv.of[i].arrived < 1
    /\ \E body \in ApiBodiesOf(i) :
         inv' = [inv EXCEPT !.of = [j \in Invocations |->
                   IF j \in Receivers(i) \cup {i}
                   THEN [inv.of[j] EXCEPT
                           !.arrived = IF j = i THEN @ + 1 ELSE @,
                           !.together = IF j = i THEN @ \/ \E k \in Invocations \ {i} : inv.of[k].listening
                                        ELSE @,
                           !.pending = IF j \in Receivers(i)
                                       THEN Append(@, [from |-> i, body |-> body]) ELSE @]
                   ELSE inv.of[j]]]
    /\ P_Frame

\* lines 133-138: response.json() of the first suspended handler completes
P_Json(i) ==
    /\ inv.of[i].pending # <<>>
    /\ P_Set(i, [inv.of[i] EXCEPT
            !.pending = Tail(@),
            !.api_data = IF IsExc(Head(inv.of[i].pending).body) THEN @
                         ELSE Append(@, Head(inv.of[i].pending).body),
            !.fed.bodies = IF Head(inv.of[i].pending).from = i /\ inv.of[i].pc = "wait"
                           THEN Append(@, Head(inv.of[i].pending).body) ELSE @])
    /\ P_Frame

\* lines 143-153: the wait ends and the captured payloads are flattened
P_Wait(i) ==
    /\ inv.of[i].op = "builds" /\ inv.of[i].pc = "wait"
    /\ IF IsExc(Flatten(inv.of[i].api_data)) THEN P_Raise(i)
       ELSE P_Set(i, [inv.of[i] EXCEPT !.builds = @ \o Flatten(inv.of[i].api_data).v,
                                       !.pc = "close"])
    /\ P_Frame

\* lines 155-162: browser.close() and return builds
P_Close(i) ==
    /\ inv.of[i].op = "builds" /\ inv.of[i].pc = "close"
    /\ P_Set(i, [P_Ended(inv.of[i]) EXCEPT !.result = PyList(inv.of[i].builds)])
    /\ P_Frame

\* lines 238-246: scrape_market_data reads the JSON of the page
Q_Evaluate(i) ==
    /\ inv.of[i].op = "market" /\ inv.of[i].pc = "evaluate"
    /\ \E d \in MarketDatasOf(i) :
         P_Set(i, [inv.of[i] EXCEPT !.fed.data = d, !.data = d, !.pc = "close"])
    /\ P_Frame

\* lines 255-261: browser.close() and return data.get("lines", [])
Q_Close(i) ==
    /\ inv.of[i].op = "market" /\ inv.of[i].pc = "close"
    /\ P_Set(i, [P_Ended(inv.of[i]) EXCEPT !.result = Lines(inv.of[i].data)])
    /\ P_Frame

PairNext ==
    \E i \in Invocations :
      \/ P_Launch(i)
      \/ P_Goto(i)
      \/ P_Evaluate(i)
      \/ P_Query(i)
      \/ P_Element(i)
      \/ P_Response(i)
      \/ P_Json(i)
      \/ P_Wait(i)
      \/ P_Close(i)
      \/ Q_Evaluate(i)
      \/ Q_Close(i)

SpecPair == InitPair /\ [][PairNext]_vars

(***************************************************************************)
(* Properties of concurrent invocations                                    *)
(***************************************************************************)
\* every record of the sequence carries the name of league i
AllOfLeague(recs, i) == \A k \in 1..Len(recs) : recs[k].t = "dict" /\ recs[k].v.name = LeagueTag(i)

\* the records of a captured payload
PayloadRecords(d) == IF d.t = "list" THEN d.v ELSE <<>>

\* the records of the elements that gave a name or a class
RECURSIVE ElementsAlone(_)
ElementsAlone(elems) ==
    IF elems = <<>> THEN <<>>
    ELSE (IF ~IsExc(Head(elems)) /\ KeepElement(Head(elems))
          THEN <<NormalizeBuild(Head(elems))>> ELSE <<>>) \o ElementsAlone(Tail(elems))

\* the JSON bodies among the ones delivered
JsonBodies(bodies) == SelectSeq(bodies, LAMBDA b : ~IsExc(b))

\* what scrape_builds returns, run alone, on a page that gives the answers f
BuildsAlone(f) ==
    IF f.nd # NoResult /\ Strategy1(f.nd).v # <<>> THEN Strategy1(f.nd)
    ELSE IF ElementsAlone(f.elems) # <<>> THEN PyList(ElementsAlone(f.elems))
    ELSE Flatten(JsonBodies(f.bodies))

\* what scrape_market_data returns, run alone, on the JSON object d
MarketAlone(d) == IF "lines" \in DOMAIN d.v THEN d.v["lines"] ELSE PyList(<<>>)

\* the invocations keep to themselves in this state
Isolated ==
    /\ inv.self = Self0
    /\ \A i \in Invocations : \A j \in Invocations \ {i} :
         inv.of[i].browser # 0 /\ inv.of[j].browser # 0 =>
           inv.of[i].browser # inv.of[j].browser
    /\ \A i \in Invocations :
         /\ AllOfLeague(inv.of[i].builds, i)
         /\ \A k \in 1..Len(inv.of[i].api_data) :
              AllOfLeague(PayloadRecords(inv.of[i].api_data[k]), i)
         /\ \A k \in 1..Len(inv.of[i].pending) : inv.of[i].pending[k].from = i
         /\ inv.of[i].pc = "done" /\ inv.of[i].result.t = "list" =>
              /\ AllOfLeague(inv.of[i].result.v, i)
              /\ inv.of[i].result =
                   IF inv.of[i].op = "builds" THEN BuildsAlone(inv.of[i].fed)
                   ELSE MarketAlone(inv.of[i].fed.data)

\* a step changes the locals of one invocation at most
OneAtATime ==
    \A i \in Invocations : \A j \in Invocations \ {i} :
      inv'.of[i] = inv.of[i] \/ inv'.of[j] = inv.of[j]

\* C21: invocations of scrape_builds and scrape_market_data on the same
\* scraper object, interleaved at their awaits, share no mutable state: each
\* has a browser and accumulators of its own, its result holds no record
\* another one captured and is what it returns when run alone.
C21_InvocationsIndependent ==
    /\ [](op = "pair" => Isolated)
    /\ [][op = "pair" => OneAtATime]_vars

\* two scrape_builds invocations listened at the same time, each got a
\* response while the other was listening, and each returned its own record
C21_Witness ==
    /\ op = "pair"
    /\ \A i \in 1..2 :
         /\ inv.of[i].op = "builds" /\ inv.of[i].pc = "done"
         /\ inv.of[i].together
         /\ inv.of[i].result.t = "list" /\ Len(inv.of[i].result.v) = 1
         /\ inv.of[i].result.v[1].v.name = LeagueTag(i)
         /\ inv.of[i].fed.elems = <<>>
         /\ inv.of[i].fed.nd = None

====
